---- MODULE Spec2Model ----
(***************************************************************************)
(* Verification development for the XLS fork: the sequential (resource-    *)
(* shared) module emitter of xls/codegen/sequential_generator.cc, the      *)
(* pipeline scheduler of xls/scheduling/pipeline_schedule.cc, the IR       *)
(* passes of xls/passes and the P5 front end of xls/p5.                    *)
(***************************************************************************)
EXTENDS Integers, Sequences, FiniteSets, TLC

(***************************************************************************)
(* Bounds of the model.                                                    *)
(***************************************************************************)
MaxStride == 2
MaxTripCount == 4
MaxLatency == 2
DataBits == 1
\* Cycles followed within one run: more than the longest run takes.
MaxRunCycles == MaxTripCount * (MaxLatency + 1) + 4
MaxWidth == 2
MaxClockPeriod == 2
MaxStages == 3
MaxSolverError == 1
MaxNodes == 4
MaxRounds == 6
MaxBit == 3
MaxNodePointer == 2
MaxOpportunities == 2
MaxElements == 2
MaxDepth == 2

VARIABLES
    \* ---- sequential module: generation-time parameters and status ----
    stride,           \* loop_->stride()
    trip_count,       \* loop_->trip_count()
    latency,          \* loop body pipeline latency
    build,            \* "unbuilt", "ok", "unimplemented", "aborted"
    \* ---- sequential module: registers of the generated hardware ----
    fsm_state,        \* state register of sequential_fsm
    pipeline_counter, \* FSM down counter (only meaningful when latency > 0)
    index_counter,    \* register of the strided index counter
    accumulator,      \* accumulator register
    invariant_reg,    \* register of the (single) loop invariant
    pipe,             \* registers of the loop body pipeline, newest first
    \* ---- sequential module: input ports in the current cycle ----
    valid_in, ready_out, data_in, inv_in,
    \* ---- history: number of the current cycle within Running ----
    run_cycles,
    \* ---- history: data_in and the invariant at the last accepted handshake ----
    captured,
    \* ---- scheduler: the function, the options and the result per strategy ----
    function_base,    \* the function PipelineSchedule::Run is called on
    options,          \* SchedulingOptions: clock_period_ps, pipeline_stages
    schedules,        \* per strategy: the outcome of Run, "none" before
    \* ---- IR passes: the function and the calls made on it ----
    ir_function,      \* the function the passes run on
    dce_dry,          \* the call RunDce(f, true, &deleted)
    dce_real,         \* the call RunDce(f, false, &deleted)
    cse,              \* the call RunCse(f, &replacements, mergeable)
    \* ---- P5 front end: the input, the module and the calls made on it ----
    syntax_tree,      \* the JSON syntax tree given to the parser
    ast_module,       \* the Module: whether parsed, and its body
    lowering,         \* the call LoweringTransform(&info, module, ...)
    conversion,       \* the call P5ActionIrConverter::Build on the module
    \* ---- rematerialization: the opportunities found and their ordered sets ----
    opportunities,        \* std::vector<RematOpportunity>
    edge_opportunities,   \* std::vector<RematEdgeOpportunity>
    universe,             \* the btree_set built from opportunities
    edge_universe,        \* the btree_set built from edge_opportunities
    \* ---- JSON front end: the document and the calls made on it ----
    json_doc,         \* the nlohmann::json document given to the parser
    json_parse,       \* the call ParseModuleFromJson(json_doc, ...)
    json_dump,        \* the call Module::ToJson on the parsed module
    \* ---- AST with parent pointers: the module and the passes run on it ----
    module_elements,  \* Module::elements and Module::body, and the pass state
    passes_run        \* how many of the passes on the module have run

seq_vars == <<stride, trip_count, latency, build, fsm_state, pipeline_counter,
              index_counter, accumulator, invariant_reg, pipe,
              valid_in, ready_out, data_in, inv_in, run_cycles, captured>>

sched_vars == <<function_base, options, schedules>>

pass_vars == <<ir_function, dce_dry, dce_real, cse>>

p5_vars == <<syntax_tree, ast_module, lowering, conversion>>

remat_vars == <<opportunities, edge_opportunities, universe, edge_universe>>

json_vars == <<json_doc, json_parse, json_dump>>

arena_vars == <<module_elements, passes_run>>

vars == <<seq_vars, sched_vars, pass_vars, p5_vars, remat_vars, json_vars,
          arena_vars>>

(***************************************************************************)
(* Helpers.                                                                *)
(***************************************************************************)
RECURSIVE Pow2(_)
Pow2(n) == IF n = 0 THEN 1 ELSE 2 * Pow2(n - 1)

Max(a, b) == IF a >= b THEN a ELSE b

\* Bits::MinBitCountUnsigned: the number of bits needed to hold n.
RECURSIVE MinBitCountUnsigned(_)
MinBitCountUnsigned(n) == IF n = 0 THEN 0 ELSE 1 + MinBitCountUnsigned(n \div 2)

DataValues == 0 .. (Pow2(DataBits) - 1)
BitValues == {0, 1}

\* The loop body (loop_->body()): a function of index, accumulator and
\* invariant.  It is not commutative in the order of the index values.
LoopBody(index, acc, inv) == (3 * acc + index + inv) % Pow2(DataBits)

(***************************************************************************)
(* SequentialModuleBuilder::AddStaticStridedCounter                        *)
(***************************************************************************)
\* Mutant: the maximum value is not aligned to a multiple of the stride.
AddStaticStridedCounter_Unaligned(stride_arg, value_limit_exclusive) ==
    IF value_limit_exclusive <= 0 THEN [status |-> "unimplemented"]
    ELSE IF stride_arg <= 0 THEN [status |-> "unimplemented"]
    ELSE LET max_inclusive_value == value_limit_exclusive - 1
             num_counter_bits == MinBitCountUnsigned(max_inclusive_value)
         IN  IF ~(num_counter_bits > 0) THEN [status |-> "aborted"]
             ELSE [status |-> "ok",
                   max_inclusive_value |-> max_inclusive_value,
                   num_counter_bits |-> num_counter_bits]

\* The generation-time result: an error, an abort of the process
\* (XLS_CHECK_GT), or the parameters of the counter that is emitted.
AddStaticStridedCounter(stride_arg, value_limit_exclusive) ==
    IF value_limit_exclusive <= 0 THEN [status |-> "unimplemented"]
    ELSE IF stride_arg <= 0 THEN [status |-> "unimplemented"]
    ELSE LET value_limit_exclusive_minus == value_limit_exclusive - 1
             max_inclusive_value ==
                 value_limit_exclusive_minus
                     - (value_limit_exclusive_minus % stride_arg)
             num_counter_bits == MinBitCountUnsigned(max_inclusive_value)
         IN  IF ~(num_counter_bits > 0) THEN [status |-> "aborted"]
             ELSE [status |-> "ok",
                   max_inclusive_value |-> max_inclusive_value,
                   num_counter_bits |-> num_counter_bits]

\* Mutant: the exclusive limit is the trip count, not trip count times stride.
IndexCounter_LimitWithoutStride == AddStaticStridedCounter(stride, trip_count)

\* The counter of the module under the current parameters.
IndexCounter == AddStaticStridedCounter(stride, stride * trip_count)

\* Mutant: the increment is twice the stride.
CounterNext_DoubleStride(value, set_zero, num_counter_bits) ==
    IF set_zero = 1 THEN 0 ELSE (value + 2 * stride) % Pow2(num_counter_bits)

\* counter_next = set_zero ? 0 : counter_wire + stride, in num_counter_bits.
CounterNext(value, set_zero, num_counter_bits) ==
    IF set_zero = 1 THEN 0 ELSE (value + stride) % Pow2(num_counter_bits)

\* load_enable = increment | set_zero
CounterLoadEnable(increment, set_zero) ==
    IF increment = 1 \/ set_zero = 1 THEN 1 ELSE 0

\* Mutant: the maximum is signalled one stride early.
HoldsMaxInclusiveValue_OneStrideEarly(value) ==
    IF value + stride = IndexCounter.max_inclusive_value THEN 1 ELSE 0

\* holds_max_inclusive_value = (value == max_inclusive_value)
HoldsMaxInclusiveValue(value) ==
    IF value = IndexCounter.max_inclusive_value THEN 1 ELSE 0

(***************************************************************************)
(* SequentialModuleBuilder::AddFsm: the FSM handed to FsmBuilder.  A state *)
(* is a sequence of blocks; a block has a condition, the outputs it sets,  *)
(* the next state it selects ("" for none) and the value it loads into the *)
(* pipeline counter (-1 for none).                                         *)
(***************************************************************************)
FsmStates == {"Null", "Ready", "Running", "Done"}
FsmResetState == "Ready"
FsmOutputs == {"fsm_ready_in", "fsm_valid_out", "fsm_last_pipeline_cycle"}
FsmOutputDefault(name) == 0

Block(cond, outputs, next, counter) ==
    [cond |-> cond, outputs |-> outputs, next |-> next, counter |-> counter]

\* Mutant: Ready clears the pipeline counter instead of loading the latency.
ReadyState_Zeroed(pipeline_latency) ==
    << Block("always", {<<"fsm_ready_in", 1>>}, "",
             IF pipeline_latency = 0 THEN -1 ELSE 0),
       Block("valid_in", {}, "Running", -1) >>

ReadyState(pipeline_latency) ==
    << Block("always", {<<"fsm_ready_in", 1>>}, "",
             IF pipeline_latency = 0 THEN -1 ELSE pipeline_latency),
       Block("valid_in", {}, "Running", -1) >>

RunningState(pipeline_latency) ==
    << Block("holds_max_and_last_cycle", {}, "Done", -1),
       IF pipeline_latency = 0
       THEN Block("always", {<<"fsm_last_pipeline_cycle", 1>>}, "", -1)
       ELSE Block("counter_is_zero", {<<"fsm_last_pipeline_cycle", 1>>}, "",
                  pipeline_latency) >>

\* Mutant: Done leaves for Ready on valid_in instead of ready_out.
DoneState_WrongCondition ==
    << Block("always", {<<"fsm_valid_out", 1>>}, "", -1),
       Block("valid_in", {}, "Ready", -1) >>

\* Mutant: Done also asserts fsm_ready_in.
DoneState_AlsoReady ==
    << Block("always", {<<"fsm_valid_out", 1>>, <<"fsm_ready_in", 1>>}, "", -1),
       Block("ready_out", {}, "Ready", -1) >>

DoneState ==
    << Block("always", {<<"fsm_valid_out", 1>>}, "", -1),
       Block("ready_out", {}, "Ready", -1) >>

AddFsm(pipeline_latency) ==
    [Null |-> << >>,
     Ready |-> ReadyState(pipeline_latency),
     Running |-> RunningState(pipeline_latency),
     Done |-> DoneState]

PipelineCounterBits(pipeline_latency) == MinBitCountUnsigned(pipeline_latency)

(***************************************************************************)
(* FsmBuilder: the meaning of the built FSM in one clock cycle.            *)
(***************************************************************************)
\* Conditions that do not read an FSM output.
OutputCondHolds(cond, counter) ==
    \/ cond = "always"
    \/ cond = "counter_is_zero" /\ counter = 0
    \/ cond = "valid_in" /\ valid_in = 1
    \/ cond = "ready_out" /\ ready_out = 1

ActiveBlocks(fsm, s, counter) ==
    {i \in 1 .. Len(fsm[s]) : OutputCondHolds(fsm[s][i].cond, counter)}

\* Output logic: the default value unless an active block of the current
\* state sets the output.
FsmOutputValue(fsm, s, counter, name) ==
    LET setters == {fsm[s][i].outputs : i \in ActiveBlocks(fsm, s, counter)}
        vals == {p[2] : p \in {q \in UNION setters : q[1] = name}}
    IN  IF vals = {} THEN FsmOutputDefault(name) ELSE CHOOSE v \in vals : TRUE

\* Conditions of the state transition logic.
CondHolds(fsm, s, counter, cond) ==
    IF cond = "holds_max_and_last_cycle"
    THEN /\ HoldsMaxInclusiveValue(index_counter) = 1
         /\ FsmOutputValue(fsm, s, counter, "fsm_last_pipeline_cycle") = 1
    ELSE OutputCondHolds(cond, counter)

\* State transition logic: state_next = state unless a block whose
\* condition holds names a next state.
FsmNextState(fsm, s, counter) ==
    LET movers == {i \in 1 .. Len(fsm[s]) :
                      /\ fsm[s][i].next # ""
                      /\ CondHolds(fsm, s, counter, fsm[s][i].cond)}
    IN  IF movers = {} THEN s
        ELSE fsm[s][CHOOSE i \in movers : \A j \in movers : i >= j].next

\* Counter logic of a down counter: decrement (in its width) unless an
\* active block loads it.
FsmCounterNext(fsm, s, counter, bits) ==
    LET loaders == {i \in ActiveBlocks(fsm, s, counter) :
                       fsm[s][i].counter # -1}
    IN  IF loaders = {} THEN (counter + Pow2(bits) - 1) % Pow2(bits)
        ELSE fsm[s][CHOOSE i \in loaders : \A j \in loaders : i >= j].counter

(***************************************************************************)
(* Wires of the generated module in the current cycle.                     *)
(***************************************************************************)
Fsm == AddFsm(latency)
ready_in == FsmOutputValue(Fsm, fsm_state, pipeline_counter, "fsm_ready_in")
valid_out == FsmOutputValue(Fsm, fsm_state, pipeline_counter, "fsm_valid_out")
last_pipeline_cycle ==
    FsmOutputValue(Fsm, fsm_state, pipeline_counter, "fsm_last_pipeline_cycle")
index_holds_max_inclusive_value == HoldsMaxInclusiveValue(index_counter)

\* Loop body pipeline: latency registers between its inputs and its output.
BodyResult == LoopBody(index_counter, accumulator, invariant_reg)
pipeline_output == IF latency = 0 THEN BodyResult ELSE pipe[latency]
PipeNext == IF latency = 0 THEN << >>
            ELSE <<BodyResult>> \o SubSeq(pipe, 1, latency - 1)

\* Accumulator register: next = ready_in ? data_in[0] : pipeline_output.
AccumulatorNext == IF ready_in = 1 THEN data_in ELSE pipeline_output

\* Mutant: the accumulator is loaded in every cycle, ready_in | !ready_in.
AccumulatorLoadEnable_Always ==
    IF ready_in = 1 \/ ready_in = 0 THEN 1 ELSE 0

\* Mutant: the accumulator is loaded only while ready_in is asserted.
AccumulatorLoadEnable_ReadyOnly == IF ready_in = 1 THEN 1 ELSE 0

\* Accumulator load enable = ready_in | last_pipeline_cycle.
AccumulatorLoadEnable ==
    IF ready_in = 1 \/ last_pipeline_cycle = 1 THEN 1 ELSE 0

\* Invariant registers: next = data_in[i], load enable = ready_in.
InvariantNext == inv_in

\* Mutant: the invariant register is loaded in every cycle,
\* ready_in | !ready_in.
InvariantLoadEnable_Always == IF ready_in = 1 \/ ready_in = 0 THEN 1 ELSE 0

InvariantLoadEnable == ready_in

\* data_out is driven by the accumulator register.
data_out == accumulator

(***************************************************************************)
(* Pipeline scheduling (xls/scheduling/pipeline_schedule.cc).              *)
(*                                                                         *)
(* A function is a record: n nodes numbered in topological order, the op   *)
(* and the operand set of each node, the bit width of each node and the    *)
(* return value.                                                           *)
(***************************************************************************)
Nodes(f) == 1 .. f.n
Users(f, node) == {u \in Nodes(f) : node \in f.operands[u]}

\* TestDelayEstimator::GetOperationDelayInPs.
kZeroDelayOps == {"after_all", "bit_slice", "concat", "literal", "param",
                  "receive", "send", "tuple_index"}
kDivDelay == 2
kDefaultDelay == 1
GetOperationDelayInPs(f, node) ==
    IF f.op[node] \in kZeroDelayOps THEN 0
    ELSE IF f.op[node] \in {"udiv", "sdiv"} THEN kDivDelay
    ELSE kDefaultDelay

\* FunctionBase::HasImplicitUse: the return value of a function; the next
\* token and the next state of a proc.
HasImplicitUse(f, node) ==
    IF f.is_proc THEN node = f.next_token \/ node \in f.next_state
    ELSE node = f.ret

\* node->GetType()->GetFlatBitCount()
GetFlatBitCount(f, node) == f.width[node]

\* The functions the scheduler is run on.
Shape(op, operands, ret) ==
    [n |-> Len(op), op |-> op, operands |-> operands, ret |-> ret,
     is_proc |-> FALSE, next_token |-> 0, next_state |-> {}]

\* The procs the scheduler is run on: no return value, a next token and a
\* set of next-state nodes.
ProcShape(op, operands, next_token, next_state) ==
    [n |-> Len(op), op |-> op, operands |-> operands, ret |-> 0,
     is_proc |-> TRUE, next_token |-> next_token, next_state |-> next_state]

\* fb.Not(fb.Not(fb.Not(fb.Not(x))))
NotChain4 ==
    Shape(<<"param", "not", "not", "not", "not">>,
          <<{}, {1}, {2}, {3}, {4}>>, 5)
\* fb.Not(fb.UDiv(fb.Not(x), fb.Not(x)))
BinPacking ==
    Shape(<<"param", "not", "not", "udiv", "not">>,
          <<{}, {1}, {1}, {2, 3}, {4}>>, 5)
\* ret_value = fb.Not(x); fb.Negate(ret_value)
ReturnValueUsers ==
    Shape(<<"param", "not", "neg">>, <<{}, {1}, {2}>>, 2)
\* a fan-out followed by a fan-in
Diamond ==
    Shape(<<"param", "not", "bit_slice", "add">>,
          <<{}, {1}, {1}, {2, 3}>>, 4)
\* a function returning its parameter, with one more node
ReturnsParam ==
    Shape(<<"param", "not">>, <<{}, {1}>>, 1)

\* a proc that sends what it receives, negated; the state is the token's
\* companion parameter
ReceiveSend ==
    ProcShape(<<"param", "param", "receive", "not", "send">>,
              <<{}, {}, {1}, {3}, {3, 4}>>, 5, {2})
\* a proc whose next state is computed from the received value
ComputedState ==
    ProcShape(<<"param", "receive", "not", "not", "send">>,
              <<{}, {1}, {2}, {3}, {2, 4}>>, 5, {3})

Shapes == {NotChain4, BinPacking, ReturnValueUsers, Diamond, ReturnsParam,
           ReceiveSend, ComputedState}

\* A shape with one node made wide and one operation made slow (0: none).
MakeFunction(shape, wide, slow) ==
    [n |-> shape.n,
     op |-> [i \in 1 .. shape.n |->
                IF i = slow /\ shape.op[i] \notin {"param", "receive", "send"}
                THEN "udiv"
                ELSE shape.op[i]],
     operands |-> shape.operands,
     ret |-> shape.ret,
     is_proc |-> shape.is_proc,
     next_token |-> shape.next_token,
     next_state |-> shape.next_state,
     width |-> [i \in 1 .. shape.n |-> IF i = wide THEN MaxWidth ELSE 1]]

Functions ==
    UNION {{MakeFunction(shape, wide, slow) :
               wide \in 0 .. shape.n, slow \in 0 .. shape.n} : shape \in Shapes}

StrategyNames == {"ASAP", "MINIMIZE_REGISTERS", "MINIMIZE_REGISTERS_SDC"}

(***************************************************************************)
(* sched::ScheduleBounds: a lower and an upper bound per node.             *)
(***************************************************************************)
NoUpperBound == Pow2(20)

MaxOfSet(S) ==
    IF S = {} THEN 0
    ELSE LET x == CHOOSE y \in S : \A z \in S : y >= z IN x

MinOfSet(S, default) ==
    IF S = {} THEN default ELSE CHOOSE y \in S : \A z \in S : y <= z

BoundsError == [err |-> TRUE, lb |-> << >>, ub |-> << >>, max_lower_bound |-> 0]

ScheduleBounds(f) ==
    [err |-> FALSE,
     lb |-> [i \in Nodes(f) |-> 0],
     ub |-> [i \in Nodes(f) |-> NoUpperBound],
     max_lower_bound |-> 0]

TightenNodeLb(b, node, value) ==
    IF b.err \/ value > b.ub[node] THEN BoundsError
    ELSE [b EXCEPT !.lb[node] = Max(@, value),
                   !.max_lower_bound = Max(@, value)]

TightenNodeUb(b, node, value) ==
    IF b.err \/ value < b.lb[node] THEN BoundsError
    ELSE [b EXCEPT !.ub[node] = IF value < @ THEN value ELSE @]

\* One node of PropagateLowerBounds; cp[i] is the delay from the start of
\* the cycle of node i to the end of node i.
RECURSIVE PropagateLowerBoundsFrom(_, _, _, _, _)
PropagateLowerBoundsFrom(f, clock_period_ps, b, cp, node) ==
    IF b.err \/ node > f.n THEN b
    ELSE LET lower == MaxOfSet({b.lb[node]}
                               \cup {b.lb[o] : o \in f.operands[node]})
             in_cycle == MaxOfSet({cp[o] : o \in
                            {p \in f.operands[node] : b.lb[p] = lower}})
             delay == GetOperationDelayInPs(f, node)
             fits == in_cycle + delay <= clock_period_ps
             new_lb == IF fits THEN lower ELSE lower + 1
             new_cp == IF fits THEN in_cycle + delay ELSE delay
         IN  PropagateLowerBoundsFrom(
                 f, clock_period_ps, TightenNodeLb(b, node, new_lb),
                 [cp EXCEPT ![node] = new_cp], node + 1)

PropagateLowerBounds(f, clock_period_ps, b) ==
    PropagateLowerBoundsFrom(f, clock_period_ps, b,
                             [i \in Nodes(f) |-> 0], 1)

\* One node of PropagateUpperBounds, in reverse topological order; cp[i] is
\* the delay from the start of node i to the end of its cycle.
RECURSIVE PropagateUpperBoundsFrom(_, _, _, _, _)
PropagateUpperBoundsFrom(f, clock_period_ps, b, cp, node) ==
    IF b.err \/ node < 1 THEN b
    ELSE LET upper == MinOfSet({b.ub[node]}
                               \cup {b.ub[u] : u \in Users(f, node)},
                               b.ub[node])
             in_cycle == MaxOfSet({cp[u] : u \in
                            {p \in Users(f, node) : b.ub[p] = upper}})
             delay == GetOperationDelayInPs(f, node)
             fits == in_cycle + delay <= clock_period_ps
             new_ub == IF fits THEN upper ELSE upper - 1
             new_cp == IF fits THEN in_cycle + delay ELSE delay
         IN  PropagateUpperBoundsFrom(
                 f, clock_period_ps, TightenNodeUb(b, node, new_ub),
                 [cp EXCEPT ![node] = new_cp], node - 1)

PropagateUpperBounds(f, clock_period_ps, b) ==
    PropagateUpperBoundsFrom(f, clock_period_ps, b,
                             [i \in Nodes(f) |-> 0], f.n)

(***************************************************************************)
(* ConstructBounds and the nodes pinned to the first and the last stage.   *)
(***************************************************************************)
\* For a function: its parameters.  For a proc: its parameters, its
\* receives and its next-state nodes.
FirstStageNodes(f) ==
    {node \in Nodes(f) : f.op[node] = "param"}
        \cup (IF f.is_proc
              THEN {node \in Nodes(f) :
                       f.op[node] = "receive" \/ node \in f.next_state}
              ELSE {})

\* For a function: its return value, unless that is a parameter.  For a
\* proc: its sends.
FinalStageNodes(f) ==
    IF f.is_proc THEN {node \in Nodes(f) : f.op[node] = "send"}
    ELSE IF f.op[f.ret] = "param" THEN {} ELSE {f.ret}

RECURSIVE TightenAllLb(_, _, _)
TightenAllLb(b, S, value) ==
    IF S = {} THEN b
    ELSE LET node == CHOOSE x \in S : TRUE
         IN  TightenAllLb(TightenNodeLb(b, node, value), S \ {node}, value)

RECURSIVE TightenAllUb(_, _, _)
TightenAllUb(b, S, value) ==
    IF S = {} THEN b
    ELSE LET node == CHOOSE x \in S : TRUE
         IN  TightenAllUb(TightenNodeUb(b, node, value), S \ {node}, value)

Status(code, value) == [status |-> code, value |-> value]

\* Mutant: the message names the largest lower bound itself.
ComputedLowerBound_NoIncrement(b) == b.max_lower_bound

\* The number in "Cannot be scheduled in %d stages. Computed lower bound is
\* %d.": bounds.max_lower_bound() + 1.
ComputedLowerBound(b) == b.max_lower_bound + 1

\* ConstructBounds; schedule_length = 0 stands for "not given".  The result
\* carries the status, the reason of a failure, the number named in the
\* message and the bounds.
ConstructBounds(f, clock_period_ps, schedule_length) ==
    LET Fail(reason, value) ==
            [status |-> "ResourceExhausted", reason |-> reason,
             value |-> value, bounds |-> BoundsError]
        b1 == PropagateLowerBounds(f, clock_period_ps, ScheduleBounds(f))
        upper_bound == IF schedule_length # 0 THEN schedule_length - 1
                       ELSE b1.max_lower_bound
        moved == {node \in FinalStageNodes(f) : b1.lb[node] # upper_bound}
        b2 == TightenAllLb(b1, moved, upper_bound)
        rerun_lb_propagation == \E node \in moved : Users(f, node) # {}
        b3 == IF rerun_lb_propagation
              THEN PropagateLowerBounds(f, clock_period_ps, b2) ELSE b2
        b4 == TightenAllUb(b3, Nodes(f), upper_bound)
        b5 == TightenAllUb(b4, FirstStageNodes(f), 0)
        b6 == PropagateUpperBounds(f, clock_period_ps, b5)
    IN  IF b1.err THEN Fail("bounds", 0)
        ELSE IF schedule_length # 0 /\ schedule_length <= b1.max_lower_bound
        THEN Fail("cannot_be_scheduled_in_stages", ComputedLowerBound(b1))
        ELSE IF b2.err \/ b3.err THEN Fail("bounds", 0)
        ELSE IF b3.max_lower_bound > upper_bound THEN Fail("final_stage", 0)
        ELSE IF b4.err THEN Fail("bounds", 0)
        ELSE IF \E node \in FirstStageNodes(f) : b4.lb[node] > 0
        THEN Fail("first_stage", 0)
        ELSE IF b5.err \/ b6.err THEN Fail("bounds", 0)
        ELSE [status |-> "ok", reason |-> "", value |-> 0, bounds |-> b6]

(***************************************************************************)
(* Min-cut scheduling.                                                     *)
(***************************************************************************)
RECURSIVE MiddleFirstOrder(_, _)
MiddleFirstOrder(first, last) ==
    IF first = last THEN <<first>>
    ELSE IF first = last - 1 THEN <<first, last>>
    ELSE LET middle == (first + last) \div 2
         IN  <<middle>> \o MiddleFirstOrder(first, middle - 1)
                        \o MiddleFirstOrder(middle + 1, last)

GetMinCutCycleOrders(length) ==
    IF length = 0 THEN << << >> >>
    ELSE IF length = 1 THEN << <<0>> >>
    ELSE IF length = 2 THEN << <<0, 1>>, <<1, 0>> >>
    ELSE << [i \in 1 .. length |-> i - 1],
            [i \in 1 .. length |-> length - i],
            MiddleFirstOrder(0, length - 1) >>

\* The sum of a function over its domain.
RECURSIVE SumOf(_, _)
SumOf(S, fn) ==
    IF S = {} THEN 0
    ELSE LET x == CHOOSE y \in S : TRUE IN fn[x] + SumOf(S \ {x}, fn)

\* sched::MinCostFunctionPartition: the partitionable nodes are split into
\* those scheduled at or before the cycle and those scheduled after it, no
\* node placed before one of its operands, such that the bits crossing the
\* boundary are fewest.  The result is the set of the nodes placed after.
PartitionableNodes(f, b, cycle) ==
    {node \in Nodes(f) : b.lb[node] <= cycle /\ b.ub[node] >= cycle + 1}

CutCost(f, b, cycle, after) ==
    LET IsAfter(node) == node \in after \/ b.lb[node] >= cycle + 1
        Crossing(node) ==
            IF ~IsAfter(node) /\ \E u \in Users(f, node) : IsAfter(u)
            THEN GetFlatBitCount(f, node) ELSE 0
    IN  SumOf(Nodes(f), [node \in Nodes(f) |-> Crossing(node)])

MinCostFunctionPartition(f, b, cycle) ==
    LET part == PartitionableNodes(f, b, cycle)
        legal == {after \in SUBSET part :
                     \A node \in after :
                         \A u \in Users(f, node) \cap part : u \in after}
    IN  {after \in legal :
            \A other \in legal :
                CutCost(f, b, cycle, after) <= CutCost(f, b, cycle, other)}

\* SplitAfterCycle followed by the two propagations of the caller's loop.
SplitAfterCycle(f, clock_period_ps, b, cycle, after) ==
    LET part == PartitionableNodes(f, b, cycle)
        b1 == TightenAllUb(b, part \ after, cycle)
        b2 == TightenAllLb(b1, after, cycle + 1)
    IN  PropagateUpperBounds(f, clock_period_ps,
            PropagateLowerBounds(f, clock_period_ps, b2))

\* CountInteriorPipelineRegisters: -1 when the RET_CHECK lb == ub fails.
CountInteriorPipelineRegisters(f, b) ==
    LET Registers(node) ==
            LET latest_use == MaxOfSet({b.lb[node]}
                                  \cup {b.lb[u] : u \in Users(f, node)})
            IN  GetFlatBitCount(f, node) * (latest_use - b.lb[node])
    IN  IF \E node \in Nodes(f) : b.lb[node] # b.ub[node] THEN -1
        ELSE SumOf(Nodes(f), [node \in Nodes(f) |-> Registers(node)])

(***************************************************************************)
(* SDC scheduling.                                                         *)
(***************************************************************************)
\* SearchPathsJustExceedClockPeriod: the ends of the paths from src whose
\* delay first exceeds the clock period.
RECURSIVE SearchPathsDfs(_, _, _, _)
SearchPathsDfs(f, clock_period_ps, node, node_start_time) ==
    LET node_end_time == node_start_time + GetOperationDelayInPs(f, node)
    IN  IF node_end_time > clock_period_ps THEN {node}
        ELSE UNION {SearchPathsDfs(f, clock_period_ps, user, node_end_time) :
                        user \in Users(f, node)}

SearchPathsJustExceedClockPeriod(f, src, clock_period_ps) ==
    SearchPathsDfs(f, clock_period_ps, src, 0)

\* All integer assignments with cycle[i] in lb[i] .. ub[i].
RECURSIVE CyclesWithin(_, _, _)
CyclesWithin(f, b, node) ==
    IF node > f.n THEN {<< >>}
    ELSE {<<c>> \o rest : c \in b.lb[node] .. b.ub[node],
                          rest \in CyclesWithin(f, b, node + 1)}

\* The constraints on the cycle variables: cycle[node] - cycle[user] <= 0 per
\* use, and cycle[dst] - cycle[src] >= 1 per found path.  For dst = src the
\* second SetCoefficient overwrites the first, leaving -cycle[src] >= 1.
SdcConstraints(f, clock_period_ps, cycle) ==
    /\ \A node \in Nodes(f) : \A user \in Users(f, node) :
           cycle[node] - cycle[user] <= 0
    /\ \A src \in Nodes(f) :
           \A dst \in SearchPathsJustExceedClockPeriod(f, src, clock_period_ps) :
               IF dst = src THEN -cycle[src] >= 1
               ELSE cycle[dst] - cycle[src] >= 1

\* The least lifetime the constraints cycle[user] - cycle[node] -
\* lifetime[node] <= 0 allow; the sink variable is free and at least 0.
Lifetime(f, cycle, node) ==
    MaxOfSet({0} \cup {cycle[u] - cycle[node] : u \in Users(f, node)})

SdcObjective(f, cycle) ==
    LET Cost(node) == GetFlatBitCount(f, node) * Lifetime(f, cycle, node)
    IN  SumOf(Nodes(f), [node \in Nodes(f) |-> Cost(node)])

SdcFeasible(f, clock_period_ps, b) ==
    {cycle \in CyclesWithin(f, b, 1) :
        /\ SdcConstraints(f, clock_period_ps, cycle)
        /\ \A node \in Nodes(f) :
               Lifetime(f, cycle, node) <= b.max_lower_bound}

SdcOptimal(f, clock_period_ps, b) ==
    LET feasible == SdcFeasible(f, clock_period_ps, b)
    IN  {cycle \in feasible :
            \A other \in feasible :
                SdcObjective(f, cycle) <= SdcObjective(f, other)}

\* The solver's doubles, in units of the tolerance 1e-3 of the integrality
\* test: an optimal vertex with an error of at most MaxSolverError units.
kUnitsPerCycle == 1000
SolverValues(f, cycle) ==
    {[i \in Nodes(f) |-> kUnitsPerCycle * cycle[i] + e[i]] :
        e \in [Nodes(f) -> (0 - MaxSolverError) .. MaxSolverError]}

Round(v) == (v + kUnitsPerCycle \div 2) \div kUnitsPerCycle
Fabs(x) == IF x < 0 THEN 0 - x ELSE x
ExpectedInteger(v) == ~(Fabs(v - kUnitsPerCycle * Round(v)) > 1)

\* cycle_map[node] = cycle: the conversion of a double to int64_t truncates
\* toward zero.
DoubleToInt64(v) ==
    IF v >= 0 THEN v \div kUnitsPerCycle
    ELSE 0 - ((0 - v) \div kUnitsPerCycle)

(***************************************************************************)
(* PipelineSchedule: construction, verification, register count.           *)
(***************************************************************************)
MaximumCycle(f, cycle_map_arg) ==
    MaxOfSet({0} \cup {cycle_map_arg[i] : i \in Nodes(f)})

\* length(): the given length, else the largest cycle plus one.
ScheduleLength(f, cycle_map_arg, length) ==
    IF length # 0 THEN length ELSE MaximumCycle(f, cycle_map_arg) + 1

\* PipelineSchedule::Verify
Verify(f, cycle_map_arg) ==
    \A node \in Nodes(f) : \A operand \in f.operands[node] :
        cycle_map_arg[operand] <= cycle_map_arg[node]

\* PipelineSchedule::VerifyTiming: node_cp per node, in topological order.
RECURSIVE NodeCp(_, _, _)
NodeCp(f, cycle_map_arg, node) ==
    LET same == {o \in f.operands[node] :
                    cycle_map_arg[o] = cycle_map_arg[node]}
        cp_to_node_start == MaxOfSet({NodeCp(f, cycle_map_arg, o) : o \in same})
    IN  cp_to_node_start + GetOperationDelayInPs(f, node)

VerifyTiming(f, cycle_map_arg, clock_period_ps) ==
    \A node \in Nodes(f) : NodeCp(f, cycle_map_arg, node) <= clock_period_ps

\* PipelineSchedule::CountFinalInteriorPipelineRegisters
CountFinalInteriorPipelineRegisters(f, cycle_map_arg, length) ==
    LET IsLiveOutOfStage(node, stage) ==
            /\ stage # length - 1
            /\ \/ ~f.is_proc /\ node = f.ret
               \/ \E user \in Users(f, node) : cycle_map_arg[user] > stage
        LiveStages(node) ==
            Cardinality({stage \in 0 .. (length - 1) :
                            /\ ~(cycle_map_arg[node] > stage)
                            /\ IsLiveOutOfStage(node, stage)})
        Bits(node) == GetFlatBitCount(f, node) * LiveStages(node)
    IN  SumOf(Nodes(f), [node \in Nodes(f) |-> Bits(node)])

(***************************************************************************)
(* FindMinimumClockPeriod.                                                 *)
(***************************************************************************)
RECURSIVE CriticalPathTo(_, _)
CriticalPathTo(f, node) ==
    MaxOfSet({CriticalPathTo(f, o) : o \in f.operands[node]})
        + GetOperationDelayInPs(f, node)

ComputeCriticalPath(f) == MaxOfSet({CriticalPathTo(f, node) : node \in Nodes(f)})

\* BinarySearchMinTrueWithStatus: the end of the range is tried first, then
\* the start, then the middle of the remaining interval.
RECURSIVE BinarySearchStep(_, _, _)
BinarySearchStep(highest_false, lowest_true, pred) ==
    IF highest_false < lowest_true - 1
    THEN LET middle == highest_false + (lowest_true - highest_false) \div 2
         IN  IF pred[middle] THEN BinarySearchStep(highest_false, middle, pred)
             ELSE BinarySearchStep(middle, lowest_true, pred)
    ELSE lowest_true

BinarySearchMinTrueWithStatus_NoSearch(start, end, pred) ==
    IF ~pred[end] THEN Status("InvalidArgument", 0)
    ELSE Status("ok", end)

BinarySearchMinTrueWithStatus(start, end, pred) ==
    IF ~pred[end] THEN Status("InvalidArgument", 0)
    ELSE IF pred[start] THEN Status("ok", start)
    ELSE Status("ok", BinarySearchStep(start, end, pred))

ClockPeriodIsFeasible(f, pipeline_stages, clk_period_ps) ==
    LET bounds_or == ConstructBounds(f, clk_period_ps, 0)
    IN  IF bounds_or.status # "ok" THEN FALSE
        ELSE bounds_or.bounds.max_lower_bound < pipeline_stages

FindMinimumClockPeriod(f, pipeline_stages) ==
    LET function_cp == ComputeCriticalPath(f)
        search_start == (function_cp + pipeline_stages - 1) \div pipeline_stages
        search_end == function_cp
        pred == [clk \in search_start .. search_end |->
                    ClockPeriodIsFeasible(f, pipeline_stages, clk)]
    IN  BinarySearchMinTrueWithStatus(search_start, search_end, pred)

(***************************************************************************)
(* The three strategies; each yields the set of its possible outcomes,     *)
(* a status and a cycle map.                                               *)
(***************************************************************************)
Scheduled(status, cycle_map_arg) == [status |-> status, cycle_map |-> cycle_map_arg]

\* ASAP: every node at its lower bound; pipeline_stages must not be given.
ScheduleAsap(f, b, pipeline_stages) ==
    IF pipeline_stages # 0 THEN {Scheduled("Internal", << >>)}
    ELSE {Scheduled("ok", [i \in Nodes(f) |-> b.lb[i]])}

\* The bounds one cut order can end with: a cut after each cycle of the
\* order, each followed by the two propagations.
RECURSIVE TrialBounds(_, _, _, _, _)
TrialBounds(f, clock_period_ps, trials, cut_order, i) ==
    IF i > Len(cut_order) THEN trials
    ELSE LET Cut(b) ==
                 IF b.err THEN {b}
                 ELSE {SplitAfterCycle(f, clock_period_ps, b, cut_order[i], after) :
                          after \in MinCostFunctionPartition(f, b, cut_order[i])}
         IN  TrialBounds(f, clock_period_ps,
                         UNION {Cut(b) : b \in trials}, cut_order, i + 1)

\* The trial kept in best_bounds: the first one with the fewest registers.
BestTrial(f, trial) ==
    LET count == [i \in DOMAIN trial |-> CountInteriorPipelineRegisters(f, trial[i])]
    IN  CHOOSE i \in DOMAIN trial :
            /\ \A j \in DOMAIN trial : count[i] <= count[j]
            /\ \A j \in DOMAIN trial : j < i => count[j] > count[i]

\* The trials of the cut orders from the k-th on, one per order.
RECURSIVE TrialsPerOrder(_, _, _, _, _)
TrialsPerOrder(f, clock_period_ps, b, orders, k) ==
    IF k > Len(orders) THEN {<< >>}
    ELSE {<<trial>> \o rest :
             trial \in TrialBounds(f, clock_period_ps, {b}, orders[k], 1),
             rest \in TrialsPerOrder(f, clock_period_ps, b, orders, k + 1)}

ScheduleToMinimizeRegisters(f, clock_period_ps, pipeline_stages, b) ==
    LET orders == GetMinCutCycleOrders(pipeline_stages - 1)
        Outcome(trial) ==
            IF \E k \in DOMAIN trial : trial[k].err
            THEN Scheduled("ResourceExhausted", << >>)
            ELSE IF \E k \in DOMAIN trial :
                        CountInteriorPipelineRegisters(f, trial[k]) < 0
            THEN Scheduled("Internal", << >>)
            ELSE Scheduled("ok", trial[BestTrial(f, trial)].lb)
    IN  {Outcome(trial) :
            trial \in TrialsPerOrder(f, clock_period_ps, b, orders, 1)}

ScheduleToMinimizeRegistersSDC(f, clock_period_ps, b) ==
    LET optimal == SdcOptimal(f, clock_period_ps, b)
        Extract(ans) ==
            IF \E node \in Nodes(f) : ~ExpectedInteger(ans[node])
            THEN Scheduled("Internal", << >>)
            ELSE Scheduled("ok", [i \in Nodes(f) |-> DoubleToInt64(ans[i])])
    IN  IF optimal = {} THEN {Scheduled("Internal", << >>)}
        ELSE {Extract(ans) : ans \in UNION {SolverValues(f, cycle) :
                                               cycle \in optimal}}

(***************************************************************************)
(* PipelineSchedule::Run.                                                  *)
(***************************************************************************)
NoSchedule == [status |-> "none", reason |-> "", value |-> 0,
               cycle_map |-> << >>, length |-> 0]

Failed(status, reason, value) ==
    [status |-> status, reason |-> reason, value |-> value,
     cycle_map |-> << >>, length |-> 0]

\* The clock period Run schedules at: the given one, else the least feasible.
RunClockPeriod(f, opts) ==
    IF opts.clock_period_ps # 0 THEN Status("ok", opts.clock_period_ps)
    ELSE IF opts.pipeline_stages = 0 THEN Status("Internal", 0)
    ELSE FindMinimumClockPeriod(f, opts.pipeline_stages)

\* The constructor of PipelineSchedule followed by VerifyTiming.
PipelineSchedule(f, cycle_map_arg, pipeline_stages, clock_period_ps) ==
    IF pipeline_stages # 0 /\ ~(pipeline_stages > MaximumCycle(f, cycle_map_arg))
    THEN Failed("aborted", "length", 0)
    ELSE IF ~VerifyTiming(f, cycle_map_arg, clock_period_ps)
    THEN Failed("Internal", "timing", 0)
    ELSE [status |-> "ok", reason |-> "", value |-> 0,
          cycle_map |-> cycle_map_arg,
          length |-> ScheduleLength(f, cycle_map_arg, pipeline_stages)]

\* Run from the strategy on, given the clock period and the bounds.
RunWithBounds(f, opts, strategy_arg, clock_period_ps, b) ==
    LET schedule_length == b.max_lower_bound + 1
        maps == IF strategy_arg = "MINIMIZE_REGISTERS"
                THEN ScheduleToMinimizeRegisters(f, clock_period_ps,
                                                 schedule_length, b)
                ELSE IF strategy_arg = "MINIMIZE_REGISTERS_SDC"
                THEN ScheduleToMinimizeRegistersSDC(f, clock_period_ps, b)
                ELSE ScheduleAsap(f, b, opts.pipeline_stages)
    IN  {IF m.status # "ok" THEN Failed(m.status, "strategy", 0)
         ELSE PipelineSchedule(f, m.cycle_map, opts.pipeline_stages,
                               clock_period_ps) : m \in maps}

\* Run from ConstructBounds on, given the clock period.
RunWithClock(f, opts, strategy_arg, clock_period_ps) ==
    UNION {IF cb.status # "ok" THEN {Failed(cb.status, cb.reason, cb.value)}
           ELSE RunWithBounds(f, opts, strategy_arg, clock_period_ps, cb.bounds) :
               cb \in {ConstructBounds(f, clock_period_ps, opts.pipeline_stages)}}

\* The outcomes Run can return for a function, the options and a strategy.
RunOutcomes(f, opts, strategy_arg) ==
    UNION {IF clock.status # "ok" THEN {Failed(clock.status, "clock", 0)}
           ELSE RunWithClock(f, opts, strategy_arg, clock.value) :
               clock \in {RunClockPeriod(f, opts)}}

(***************************************************************************)
(* Initial state and actions of the sequential module.                     *)
(***************************************************************************)
\* The sequential generator before any module is requested.
SeqIdle ==
    /\ stride = 0 /\ trip_count = 0 /\ latency = 0
    /\ build = "unbuilt"
    /\ fsm_state = "Null"
    /\ pipeline_counter = 0
    /\ index_counter = 0
    /\ accumulator = 0
    /\ invariant_reg = 0
    /\ pipe = << >>
    /\ valid_in = 0 /\ ready_out = 0 /\ data_in = 0 /\ inv_in = 0
    /\ run_cycles = 0
    /\ captured = [acc |-> 0, inv |-> 0]

\* The passes before any function is given to them.
NoCall == [called |-> FALSE]

PassIdle ==
    /\ ir_function = << >>
    /\ dce_dry = NoCall /\ dce_real = NoCall /\ cse = NoCall

\* The front end before any syntax tree is given to it.
NoModule == [parsed |-> FALSE]

P5Idle ==
    /\ syntax_tree = << >>
    /\ ast_module = NoModule
    /\ lowering = NoCall
    /\ conversion = NoCall

\* The rematerialization pass before any opportunity is found.
RematIdle ==
    /\ opportunities = << >> /\ edge_opportunities = << >>
    /\ universe = NoCall /\ edge_universe = NoCall

\* The JSON front end before any document is given to it.
JsonIdle ==
    /\ json_doc = << >>
    /\ json_parse = NoCall /\ json_dump = NoCall

\* The AST with parent pointers before any module is parsed.
ArenaIdle ==
    /\ module_elements = << >>
    /\ passes_run = 0

\* The scheduler before any function is given to it.
SchedIdle ==
    /\ function_base = ReturnsParam
    /\ options = [clock_period_ps |-> 0, pipeline_stages |-> 0]
    /\ schedules = [s \in StrategyNames |-> NoSchedule]

SeqInit ==
    /\ stride \in 0 .. MaxStride
    /\ trip_count \in 0 .. MaxTripCount
    /\ latency \in 0 .. MaxLatency
    /\ build = "unbuilt"
    /\ fsm_state = "Null"
    /\ pipeline_counter = 0
    /\ index_counter = 0
    /\ accumulator = 0
    /\ invariant_reg = 0
    /\ pipe = << >>
    /\ valid_in = 0 /\ ready_out = 0 /\ data_in = 0 /\ inv_in = 0
    /\ run_cycles = 0
    /\ captured = [acc |-> 0, inv |-> 0]
    /\ SchedIdle
    /\ PassIdle
    /\ P5Idle
    /\ RematIdle
    /\ JsonIdle
    /\ ArenaIdle

\* SequentialModuleBuilder::Build, followed by the reset of the module.
\* The FSM state register takes its reset state; registers without a reset
\* value hold an arbitrary value.
Build ==
    /\ build = "unbuilt"
    /\ build' = IndexCounter.status
    /\ IF IndexCounter.status = "ok"
       THEN /\ fsm_state' = FsmResetState
            /\ pipeline_counter' \in
                   0 .. (Pow2(PipelineCounterBits(latency)) - 1)
            /\ index_counter' \in 0 .. (Pow2(IndexCounter.num_counter_bits) - 1)
            /\ accumulator' \in DataValues
            /\ invariant_reg' \in BitValues
            /\ pipe' \in [1 .. latency -> DataValues]
            /\ valid_in' \in BitValues /\ ready_out' \in BitValues
            /\ data_in' \in DataValues /\ inv_in' \in BitValues
       ELSE UNCHANGED <<fsm_state, pipeline_counter, index_counter,
                        accumulator, invariant_reg, pipe,
                        valid_in, ready_out, data_in, inv_in>>
    /\ UNCHANGED <<stride, trip_count, latency, run_cycles, captured,
                   sched_vars, pass_vars, p5_vars,
                   remat_vars, json_vars,
                   arena_vars>>

\* One rising clock edge of the generated module.
ClockEdge ==
    /\ build = "ok"
    /\ run_cycles < MaxRunCycles
    /\ fsm_state' = FsmNextState(Fsm, fsm_state, pipeline_counter)
    /\ pipeline_counter' =
           IF latency = 0 THEN pipeline_counter
           ELSE FsmCounterNext(Fsm, fsm_state, pipeline_counter,
                               PipelineCounterBits(latency))
    /\ index_counter' =
           IF CounterLoadEnable(last_pipeline_cycle, ready_in) = 1
           THEN CounterNext(index_counter, ready_in,
                            IndexCounter.num_counter_bits)
           ELSE index_counter
    /\ accumulator' =
           IF AccumulatorLoadEnable = 1 THEN AccumulatorNext ELSE accumulator
    /\ invariant_reg' =
           IF InvariantLoadEnable = 1 THEN InvariantNext ELSE invariant_reg
    /\ pipe' = PipeNext
    /\ valid_in' \in BitValues /\ ready_out' \in BitValues
    /\ data_in' \in DataValues /\ inv_in' \in BitValues
    /\ run_cycles' = IF fsm_state' = "Running"
                     THEN (IF fsm_state = "Running" THEN run_cycles + 1 ELSE 1)
                     ELSE IF fsm_state' = "Done" THEN run_cycles ELSE 0
    /\ captured' = IF ready_in = 1 /\ valid_in = 1
                   THEN [acc |-> data_in, inv |-> inv_in]
                   ELSE captured
    /\ UNCHANGED <<stride, trip_count, latency, build, sched_vars, pass_vars,
                   p5_vars,
                   remat_vars, json_vars,
                   arena_vars>>

SeqNext == Build \/ ClockEdge

SeqSpec == SeqInit /\ [][SeqNext]_vars

\* The module under a clock that never stops.
SeqLiveInit == SeqInit /\ stride = MaxStride /\ latency < MaxLatency

SeqLiveSpec == SeqLiveInit /\ [][SeqNext]_vars /\ WF_vars(ClockEdge)

SchedInit ==
    /\ SeqIdle
    /\ PassIdle
    /\ P5Idle
    /\ RematIdle
    /\ JsonIdle
    /\ ArenaIdle
    /\ function_base \in Functions
    /\ options \in [clock_period_ps : 0 .. MaxClockPeriod,
                    pipeline_stages : 0 .. MaxStages]
    /\ schedules = [s \in StrategyNames |-> NoSchedule]

\* One call of PipelineSchedule::Run on the function, per strategy.
Run(strategy_arg) ==
    /\ schedules[strategy_arg].status = "none"
    /\ \E schedule \in RunOutcomes(function_base, options, strategy_arg) :
           schedules' = [schedules EXCEPT ![strategy_arg] = schedule]
    /\ UNCHANGED <<function_base, options, seq_vars, pass_vars, p5_vars,
                   remat_vars, json_vars,
                   arena_vars>>

RunAsap == Run("ASAP")
RunMinimizeRegisters == Run("MINIMIZE_REGISTERS")
RunMinimizeRegistersSDC == Run("MINIMIZE_REGISTERS_SDC")

SchedNext == RunAsap \/ RunMinimizeRegisters \/ RunMinimizeRegistersSDC

SchedSpec == SchedInit /\ [][SchedNext]_vars

(***************************************************************************)
(* Properties of the sequential module.                                    *)
(***************************************************************************)
Built == build = "ok"
MaxIndexValue == (trip_count - 1) * stride

\* C1: after reset the FSM state changes only by Ready -> Running when
\* valid_in is high, Running -> Done when the index counter holds its
\* maximum value and last_pipeline_cycle is asserted, and Done -> Ready when
\* ready_out is high; in every other cycle the state stays the same.
C1_FsmTransitions ==
    [][ (Built /\ Built') =>
          fsm_state' =
            CASE fsm_state = "Ready" /\ valid_in = 1 -> "Running"
              [] /\ fsm_state = "Running"
                 /\ index_counter = MaxIndexValue
                 /\ last_pipeline_cycle = 1 -> "Done"
              [] fsm_state = "Done" /\ ready_out = 1 -> "Ready"
              [] OTHER -> fsm_state ]_vars

C1_Witness == Built /\ fsm_state = "Done" /\ ready_out = 1 /\ run_cycles > 0

\* C2: for stride 1, trip_count 4 and latency 0 the module asserts ready_in
\* in the first cycle after reset, spends exactly 4 consecutive cycles in
\* Running after a valid_in handshake, then asserts valid_out, and asserts
\* ready_in in the cycle after a cycle with ready_out high.
C2_Config == stride = 1 /\ trip_count = 4 /\ latency = 0

C2_SequentialWrap ==
    [][ (C2_Config /\ Built') =>
          /\ (build = "unbuilt" => ready_in' = 1)
          /\ (fsm_state = "Ready" /\ valid_in = 1 =>
                 fsm_state' = "Running" /\ run_cycles' = 1)
          /\ (fsm_state = "Running" => run_cycles <= 4)
          /\ (fsm_state = "Running" /\ run_cycles < 4 =>
                 fsm_state' = "Running" /\ valid_out' = 0)
          /\ (fsm_state = "Running" /\ run_cycles = 4 => valid_out' = 1)
          /\ (valid_out = 1 /\ ready_out = 1 => ready_in' = 1) ]_vars

C2_Witness ==
    C2_Config /\ Built /\ valid_out = 1 /\ ready_out = 1 /\ run_cycles = 4

\* C3: ready_in is asserted exactly in the cycles in which the FSM is in
\* Ready, valid_out exactly in the cycles in which it is in Done, and the two
\* are never asserted in the same cycle.
C3_HandshakeOutputs ==
    Built => /\ (ready_in = 1 <=> fsm_state = "Ready")
             /\ (valid_out = 1 <=> fsm_state = "Done")
             /\ ~(ready_in = 1 /\ valid_out = 1)

C3_Witness == Built /\ fsm_state = "Done" /\ valid_out = 1 /\ ready_in = 0

\* C4: while Running, last_pipeline_cycle is asserted in every cycle if the
\* latency L is 0; if L >= 1 the down counter holds L in the first Running
\* cycle, counts down by one per cycle, last_pipeline_cycle is asserted
\* exactly when the counter is 0, the counter is reloaded with L on each
\* assertion, and successive assertions are exactly L+1 cycles apart.
C4_LastPipelineCycle ==
    [][ (Built /\ Built' /\ fsm_state = "Running") =>
          IF latency = 0 THEN last_pipeline_cycle = 1
          ELSE /\ (run_cycles = 1 => pipeline_counter = latency)
               /\ (last_pipeline_cycle = 1 <=> pipeline_counter = 0)
               /\ (pipeline_counter # 0 =>
                       pipeline_counter' = pipeline_counter - 1)
               /\ (last_pipeline_cycle = 1 => pipeline_counter' = latency)
               /\ (last_pipeline_cycle = 1 <=>
                       run_cycles % (latency + 1) = 0) ]_vars

C4_Witness ==
    /\ Built /\ latency = 2 /\ fsm_state = "Running"
    /\ run_cycles = 6 /\ last_pipeline_cycle = 1

\* C5 (as stated): the index counter is 0 when the FSM enters Running,
\* increases by stride on each last_pipeline_cycle pulse and changes at no
\* other time while Running, so the body sees 0, stride, ...,
\* (trip_count-1)*stride in order; holds_max_inclusive_value is high exactly
\* when the counter equals (trip_count-1)*stride.
C5_Original ==
    [][ (Built /\ Built') =>
          /\ (fsm_state # "Running" /\ fsm_state' = "Running" =>
                 index_counter' = 0)
          /\ (fsm_state = "Running" =>
                 /\ index_counter = stride * ((run_cycles - 1) \div (latency + 1))
                 /\ index_counter' =
                        IF last_pipeline_cycle = 1
                        THEN index_counter + stride ELSE index_counter)
          /\ (index_holds_max_inclusive_value = 1 <=>
                 index_counter = MaxIndexValue) ]_vars

\* C5 (amended): as above, but a pulse adds stride modulo the width of the
\* counter register: the counter increases by stride on every pulse except
\* the final one, taken as the FSM leaves Running, where it becomes
\* trip_count*stride modulo 2^num_counter_bits.
C5_IndexCounter ==
    [][ (Built /\ Built') =>
          /\ (fsm_state # "Running" /\ fsm_state' = "Running" =>
                 index_counter' = 0)
          /\ (fsm_state = "Running" =>
                 /\ index_counter = stride * ((run_cycles - 1) \div (latency + 1))
                 /\ index_counter' =
                        IF last_pipeline_cycle = 1
                        THEN IF index_counter # MaxIndexValue
                             THEN index_counter + stride
                             ELSE (trip_count * stride)
                                    % Pow2(MinBitCountUnsigned(MaxIndexValue))
                        ELSE index_counter)
          /\ (index_holds_max_inclusive_value = 1 <=>
                 index_counter = MaxIndexValue) ]_vars

C5_Witness ==
    /\ Built /\ fsm_state = "Done" /\ stride = 1 /\ trip_count = 4
    /\ index_counter = 0 /\ run_cycles = 4 * (latency + 1)

\* C6 (as stated): in every cycle the data output equals the value on the
\* loop body's output wire.
C6_Original == Built => data_out = pipeline_output

\* C6 (amended): the data output is the accumulator register, not the body's
\* output wire: after a clock edge it holds data_in[0] if ready_in was
\* asserted, the value of the body's output wire if last_pipeline_cycle was
\* asserted, and its previous value otherwise.
C6_DataOutput ==
    [][ (Built /\ Built') =>
          data_out' = IF ready_in = 1 THEN data_in
                      ELSE IF last_pipeline_cycle = 1 THEN pipeline_output
                      ELSE data_out ]_vars

C6_Witness ==
    Built /\ fsm_state = "Done" /\ data_out # pipeline_output

(***************************************************************************)
(* Properties of the scheduler.                                            *)
(***************************************************************************)
kSdc == "MINIMIZE_REGISTERS_SDC"
kMinCut == "MINIMIZE_REGISTERS"
Returned(strategy_arg) == schedules[strategy_arg].status = "ok"
Called(strategy_arg) == schedules[strategy_arg].status # "none"

C8_IntegerAssignmentsMeetTiming ==
    \A clk \in 1 .. MaxClockPeriod :
        \A cycle \in [Nodes(function_base) -> 0 .. MaxStages] :
            SdcConstraints(function_base, clk, cycle)
                => VerifyTiming(function_base, cycle, clk)

LargestLowerBound ==
    PropagateLowerBounds(function_base,
                         RunClockPeriod(function_base, options).value,
                         ScheduleBounds(function_base)).max_lower_bound

\* Run is asked for no more stages than the largest lower bound.
TooFewStages ==
    /\ options.pipeline_stages # 0
    /\ RunClockPeriod(function_base, options).status = "ok"
    /\ options.pipeline_stages <= LargestLowerBound

\* Some assignment of the nodes to the given number of stages has no operand
\* after its user, meets the clock period in every stage, and has the
\* first-stage nodes in cycle 0 and the final-stage nodes in the last cycle.
StageCountIsFeasible(f, clock_period_ps, stages) ==
    \E cycle \in [Nodes(f) -> 0 .. (stages - 1)] :
        /\ Verify(f, cycle)
        /\ VerifyTiming(f, cycle, clock_period_ps)
        /\ \A node \in FirstStageNodes(f) : cycle[node] = 0
        /\ \A node \in FinalStageNodes(f) : cycle[node] = stages - 1

SmallestFeasibleStageCount(f, clock_period_ps, stages) ==
    /\ StageCountIsFeasible(f, clock_period_ps, stages)
    /\ \A fewer \in 1 .. (stages - 1) :
           ~StageCountIsFeasible(f, clock_period_ps, fewer)

IsChainOfFour ==
    /\ function_base.op = NotChain4.op
    /\ function_base.operands = NotChain4.operands
    /\ options = [clock_period_ps |-> 1, pipeline_stages |-> 2]

\* No operation of the function is slower than the clock period.
NoSlowOperation ==
    \A node \in Nodes(function_base) :
        GetOperationDelayInPs(function_base, node) <= options.clock_period_ps

OnlyStagesGiven ==
    /\ \E s \in StrategyNames : Called(s)
    /\ options.clock_period_ps = 0
    /\ options.pipeline_stages # 0

SearchStart ==
    (ComputeCriticalPath(function_base) + options.pipeline_stages - 1)
        \div options.pipeline_stages

MinPeriod == FindMinimumClockPeriod(function_base, options.pipeline_stages)

\* C11: when only pipeline_stages is given, the period FindMinimumClockPeriod
\* returns lies in [ceil(cp/stages), cp], bounds construction succeeds at it
\* with the largest lower bound below pipeline_stages, and it does so at no
\* smaller period of that interval.
C11_MinimumClockPeriod ==
    (OnlyStagesGiven /\ MinPeriod.status = "ok") =>
        /\ MinPeriod.value \in SearchStart .. ComputeCriticalPath(function_base)
        /\ ClockPeriodIsFeasible(function_base, options.pipeline_stages,
                                 MinPeriod.value)
        /\ \A p \in SearchStart .. MinPeriod.value - 1 :
               ~ClockPeriodIsFeasible(function_base, options.pipeline_stages, p)

\* The search rejected a period of the interval and settled strictly between
\* its ends.
C11_Witness ==
    /\ OnlyStagesGiven
    /\ MinPeriod.status = "ok"
    /\ MinPeriod.value > SearchStart
    /\ MinPeriod.value < ComputeCriticalPath(function_base)

\* The schedule a strategy returned has the first-stage nodes in cycle 0 and
\* the final-stage nodes in its last cycle.
StagesPinned(s) ==
    /\ \A node \in FirstStageNodes(function_base) :
           schedules[s].cycle_map[node] = 0
    /\ \A node \in FinalStageNodes(function_base) :
           schedules[s].cycle_map[node] = schedules[s].length - 1

kUnaryOps == {"neg", "cover"}
kBinaryOps == {"add", "sub"}
kLiteralValues == {0, 1}

\* The nodes a function can hold at position id: a literal, a unary or a
\* binary operation on earlier nodes; node 1 is the parameter.
NodeChoices(id) ==
    IF id = 1 THEN {[op |-> "param", operands |-> << >>, value |-> 0]}
    ELSE {[op |-> "literal", operands |-> << >>, value |-> v] :
             v \in kLiteralValues}
         \cup {[op |-> o, operands |-> <<a>>, value |-> 0] :
                  o \in kUnaryOps, a \in 1 .. (id - 1)}
         \cup {[op |-> o, operands |-> <<a, b>>, value |-> 0] :
                  o \in kBinaryOps, a \in 1 .. (id - 1), b \in 1 .. (id - 1)}

RECURSIVE NodeLists(_)
NodeLists(n) ==
    IF n = 0 THEN {<< >>}
    ELSE {Append(earlier, node) :
             earlier \in NodeLists(n - 1), node \in NodeChoices(n)}

IrFunction(node_list, ret) ==
    [n |-> Len(node_list),
     nodes |-> 1 .. Len(node_list),
     op |-> [i \in 1 .. Len(node_list) |-> node_list[i].op],
     operands |-> [i \in 1 .. Len(node_list) |-> node_list[i].operands],
     value |-> [i \in 1 .. Len(node_list) |-> node_list[i].value],
     ret |-> ret,
     is_proc |-> FALSE, next_token |-> 0, next_state |-> {}]

\* The functions the passes are run on.
IrFunctions ==
    {IrFunction(node_list, ret) :
        node_list \in NodeLists(MaxNodes), ret \in 1 .. MaxNodes}

\* node->operands() as a set, and node->users()
OperandSet(f, node) ==
    {f.operands[node][i] : i \in DOMAIN f.operands[node]}

IrUsers(f, node) == {user \in f.nodes : node \in OperandSet(f, user)}

\* OpIsSideEffecting: a parameter is never removed (NoDeadCode keeps the
\* unused parameter y), nor is a cover.
OpIsSideEffecting(op) == op \in {"param", "cover", "send", "receive"}

is_deletable_IgnoringSideEffects(f, node) == ~HasImplicitUse(f, node)

\* The lambda is_deletable of RunDce.
is_deletable(f, node) ==
    ~HasImplicitUse(f, node) /\ ~OpIsSideEffecting(f.op[node])

\* The elements of a set of numbers in increasing order.
RECURSIVE Ascending(_)
Ascending(S) ==
    IF S = {} THEN << >>
    ELSE <<MinOfSet(S, 0)>> \o Ascending(S \ {MinOfSet(S, 0)})

\* FunctionBase::RemoveNode
RemoveNode(f, node) == [f EXCEPT !.nodes = @ \ {node}]

\* The while loop of RunDce: the front of the worklist is taken, each of its
\* distinct operands whose only user it is joins the worklist, and the node
\* is removed (unless dry_run) and recorded.
RECURSIVE DceWorklist(_, _, _, _)
DceWorklist(f, worklist, deleted, dry_run) ==
    IF worklist = << >> THEN [f |-> f, deleted |-> deleted]
    ELSE LET node == Head(worklist)
             operands == f.operands[node]
             unique == {i \in DOMAIN operands :
                           \A j \in 1 .. (i - 1) : operands[j] # operands[i]}
             pushed == {i \in unique :
                           /\ Cardinality(IrUsers(f, operands[i])) = 1
                           /\ is_deletable(f, operands[i])}
             order == Ascending(pushed)
         IN  DceWorklist(IF dry_run THEN f ELSE RemoveNode(f, node),
                         Tail(worklist)
                             \o [k \in DOMAIN order |-> operands[order[k]]],
                         deleted \cup {node}, dry_run)

\* RunDce: the function afterwards, the nodes added to `deleted`, and the
\* returned flag removed_count > 0.
RunDce(f, dry_run) ==
    LET worklist == Ascending({node \in f.nodes :
                                  /\ IrUsers(f, node) = {}
                                  /\ is_deletable(f, node)})
        done == DceWorklist(f, worklist, {}, dry_run)
    IN  [f |-> done.f, deleted |-> done.deleted,
         changed |-> ~dry_run /\ done.deleted # {}]

(***************************************************************************)
(* Common subexpression elimination.                                       *)
(***************************************************************************)
OpIsCommutative(op) == op \in {"add"}

\* SortByNodeId
RECURSIVE SortByNodeId(_)
SortByNodeId(ids) ==
    IF ids = << >> THEN << >>
    ELSE LET least == MinOfSet({ids[i] : i \in DOMAIN ids}, 0)
             at == MinOfSet({i \in DOMAIN ids : ids[i] = least}, 0)
         IN  <<least>> \o SortByNodeId([k \in 1 .. (Len(ids) - 1) |->
                                           IF k < at THEN ids[k] ELSE ids[k + 1]])

GetOperandsForCse(f, node) ==
    IF ~OpIsCommutative(f.op[node]) THEN f.operands[node]
    ELSE SortByNodeId(f.operands[node])

\* The lambda node_hash of RunCse: the op and the ids of the operands.
node_hash(f, node) == <<f.op[node]>> \o GetOperandsForCse(f, node)

\* Node::IsDefinitelyEqualTo: the same op, as many operands, and the same
\* attributes (the value of a literal).
IsDefinitelyEqualTo(f, node, other) ==
    /\ f.op[node] = f.op[other]
    /\ Len(f.operands[node]) = Len(f.operands[other])
    /\ f.value[node] = f.value[other]

is_mergeable_Always(mergeable, x, y) == TRUE

\* The lambda is_mergeable of RunCse.
is_mergeable(mergeable, x, y) ==
    IF x \notin DOMAIN mergeable /\ y \notin DOMAIN mergeable THEN TRUE
    ELSE IF x \in DOMAIN mergeable /\ y \in DOMAIN mergeable
    THEN mergeable[x] = mergeable[y]
    ELSE FALSE

\* Node::ReplaceUsesWith: every use of node as an operand, and as the return
\* value, becomes a use of replacement.
ReplaceUsesWith(f, node, replacement) ==
    [f EXCEPT !.operands = [u \in DOMAIN f.operands |->
                               [i \in DOMAIN f.operands[u] |->
                                   IF f.operands[u][i] = node THEN replacement
                                   ELSE f.operands[u][i]]],
              !.ret = IF f.ret = node THEN replacement ELSE f.ret]

\* TopoSort(f): the nodes, operands before users, in the order of their ids.
TopoSort(f) == Ascending(f.nodes)

\* The loop of RunCse over the nodes from position i of the order on;
\* node_buckets is the sequence of the nodes kept so far, a bucket being
\* those of one hash.
RECURSIVE CseLoop(_, _, _, _, _, _)
CseLoop(f, order, i, node_buckets, replacements, mergeable) ==
    IF i > Len(order)
    THEN [f |-> f, replacements |-> replacements,
          changed |-> replacements # {}]
    ELSE LET node == order[i]
             matches ==
                 {k \in DOMAIN node_buckets :
                     /\ node_hash(f, node_buckets[k]) = node_hash(f, node)
                     /\ GetOperandsForCse(f, node)
                            = GetOperandsForCse(f, node_buckets[k])
                     /\ IsDefinitelyEqualTo(f, node, node_buckets[k])
                     /\ is_mergeable(mergeable, node, node_buckets[k])}
             candidate == node_buckets[MinOfSet(matches, 0)]
         IN  IF OpIsSideEffecting(f.op[node])
             THEN CseLoop(f, order, i + 1, node_buckets, replacements, mergeable)
             ELSE IF matches = {}
             THEN CseLoop(f, order, i + 1, Append(node_buckets, node),
                          replacements, mergeable)
             ELSE CseLoop(ReplaceUsesWith(f, node, candidate), order, i + 1,
                          node_buckets,
                          replacements \cup {<<node, candidate>>}, mergeable)

\* RunCse: the function afterwards, the pairs (node, its replacement) and the
\* returned flag.
RunCse(f, mergeable) == CseLoop(f, TopoSort(f), 1, << >>, {}, mergeable)

\* The keys RunCse is called with: none (CsePass), a schedule that puts the
\* nodes up to a boundary in stage 0 and the others in stage 1, and such a
\* schedule without an entry for the newest node.
Mergeables(f) ==
    {<< >>}
    \cup {[node \in f.nodes |-> IF node <= boundary THEN 0 ELSE 1] :
             boundary \in 1 .. (f.n - 1)}
    \cup {[node \in f.nodes \ {f.n} |-> IF node <= boundary THEN 0 ELSE 1] :
             boundary \in 1 .. (f.n - 1)}

(***************************************************************************)
(* Initial state and actions of the passes.                                *)
(***************************************************************************)
PassInit ==
    /\ SeqIdle
    /\ SchedIdle
    /\ P5Idle
    /\ RematIdle
    /\ JsonIdle
    /\ ArenaIdle
    /\ ir_function \in IrFunctions
    /\ dce_dry = NoCall /\ dce_real = NoCall /\ cse = NoCall

\* RunDce(f, /*dry_run=*/true, &deleted) with an empty set.
DryRunDce ==
    /\ ~dce_dry.called
    /\ LET run == RunDce(ir_function, TRUE)
       IN  /\ dce_dry' = [called |-> TRUE, f |-> ir_function,
                          deleted |-> run.deleted, changed |-> run.changed]
           /\ ir_function' = run.f
    /\ UNCHANGED <<dce_real, cse, seq_vars, sched_vars, p5_vars,
                   remat_vars, json_vars,
                   arena_vars>>

\* RunDce(f, /*dry_run=*/false, &deleted) with an empty set.
DeadCodeElimination ==
    /\ ~dce_real.called
    /\ LET run == RunDce(ir_function, FALSE)
       IN  /\ dce_real' = [called |-> TRUE, f |-> ir_function,
                           deleted |-> run.deleted, changed |-> run.changed]
           /\ ir_function' = run.f
    /\ UNCHANGED <<dce_dry, cse, seq_vars, sched_vars, p5_vars,
                   remat_vars, json_vars,
                   arena_vars>>

\* RunCse(f, &replacements, mergeable).
CommonSubexpressionElimination ==
    /\ ~cse.called
    /\ \E mergeable \in Mergeables(ir_function) :
           LET run == RunCse(ir_function, mergeable)
           IN  /\ cse' = [called |-> TRUE, f |-> ir_function,
                          mergeable |-> mergeable,
                          replacements |-> run.replacements,
                          changed |-> run.changed]
               /\ ir_function' = run.f
    /\ UNCHANGED <<dce_dry, dce_real, seq_vars, sched_vars, p5_vars,
                   remat_vars, json_vars,
                   arena_vars>>

PassNext == DryRunDce \/ DeadCodeElimination \/ CommonSubexpressionElimination

PassSpec == PassInit /\ [][PassNext]_vars

(***************************************************************************)
(* Properties of dead code elimination.                                    *)
(***************************************************************************)
\* The nodes a function cannot lose: the side-effecting and the implicitly
\* used ones, and their transitive operands.
RECURSIVE WithOperands(_, _)
WithOperands(f, S) ==
    LET more == S \cup UNION {OperandSet(f, node) : node \in S}
    IN  IF more = S THEN S ELSE WithOperands(f, more)

LiveNodes(f) ==
    WithOperands(f, {node \in f.nodes :
                        HasImplicitUse(f, node) \/ OpIsSideEffecting(f.op[node])})

\* C13: a non-dry-run DCE deletes exactly the nodes from which no implicitly
\* used and no side-effecting node is reachable along user edges: the nodes
\* left are the side-effecting and implicitly used nodes and their
\* transitive operands, and the nodes recorded as deleted are the others.
C13_DceDeletesExactlyTheDead ==
    dce_real.called =>
        /\ ir_function.nodes = LiveNodes(dce_real.f)
        /\ dce_real.deleted = dce_real.f.nodes \ LiveNodes(dce_real.f)
        /\ dce_real.changed = (dce_real.deleted # {})

\* A chain of dead nodes next to a cover nobody uses: the chain is deleted
\* and the cover stays.
C13_Witness ==
    /\ dce_real.called
    /\ Cardinality(dce_real.deleted) >= 2
    /\ \E dead \in dce_real.deleted : OperandSet(dce_real.f, dead)
                                          \cap dce_real.deleted # {}
    /\ \E node \in ir_function.nodes :
           /\ ir_function.op[node] = "cover"
           /\ node # ir_function.ret
           /\ IrUsers(dce_real.f, node) = {}

\* C14: for every function, the nodes RunDce adds to `deleted` with dry_run =
\* true are the nodes it removes with dry_run = false on the same function.
C14_DryRunReportsTheSame ==
    (dce_dry.called /\ dce_real.called /\ dce_dry.f = dce_real.f) =>
        dce_dry.deleted = dce_real.f.nodes \ ir_function.nodes

(***************************************************************************)
(* Properties of common subexpression elimination.                         *)
(***************************************************************************)
\* How often a node occurs among the operands of another.
Occurrences(f, node, operand) ==
    Cardinality({i \in DOMAIN f.operands[node] : f.operands[node][i] = operand})

\* Two nodes have the same op and the same operands, in any order when the
\* op is commutative.
SameOpAndOperands(f, x, y) ==
    /\ f.op[x] = f.op[y]
    /\ IF OpIsCommutative(f.op[x])
       THEN \A operand \in 1 .. f.n :
                Occurrences(f, x, operand) = Occurrences(f, y, operand)
       ELSE f.operands[x] = f.operands[y]

\* The mergeability keys of two nodes agree: both have none, or both have
\* the same.
KeysAgree(mergeable, x, y) ==
    \/ x \notin DOMAIN mergeable /\ y \notin DOMAIN mergeable
    \/ /\ x \in DOMAIN mergeable /\ y \in DOMAIN mergeable
       /\ mergeable[x] = mergeable[y]

\* CSE may replace x by y, or y by x, in the function.
Equivalent(f, mergeable, x, y) ==
    /\ ~OpIsSideEffecting(f.op[x]) /\ ~OpIsSideEffecting(f.op[y])
    /\ SameOpAndOperands(f, x, y)
    /\ IsDefinitelyEqualTo(f, x, y)
    /\ KeysAgree(mergeable, x, y)

Replaced == {pair[1] : pair \in cse.replacements}

\* C15: CSE replaces a non-side-effecting node by another exactly when the
\* two have the same op and the same operands (in any order for a commutative
\* op), IsDefinitelyEqualTo holds and their mergeability keys agree: every
\* replacement is by such a node, which itself is kept, and of two such
\* nodes one is replaced.  With a schedule as the key, no node is replaced by
\* a node of a different stage.
C15_CseReplacesEquivalentNodes ==
    cse.called =>
        /\ \A pair \in cse.replacements :
               /\ pair[1] # pair[2]
               /\ pair[2] \notin Replaced
               /\ Equivalent(ir_function, cse.mergeable, pair[1], pair[2])
               /\ ~( /\ pair[1] \in DOMAIN cse.mergeable
                     /\ pair[2] \in DOMAIN cse.mergeable
                     /\ cse.mergeable[pair[1]] # cse.mergeable[pair[2]] )
        /\ \A x \in cse.f.nodes, y \in cse.f.nodes :
               (x # y /\ Equivalent(ir_function, cse.mergeable, x, y))
                   => (x \in Replaced \/ y \in Replaced)

\* Under a schedule, a node was replaced by a node of its stage while
\* another node with the same op and operands, in another stage, was kept.
C15_Witness ==
    /\ cse.called
    /\ \E pair \in cse.replacements :
           \E other \in cse.f.nodes \ (Replaced \cup {pair[2]}) :
               /\ pair[1] \in DOMAIN cse.mergeable
               /\ other \in DOMAIN cse.mergeable
               /\ cse.mergeable[other] # cse.mergeable[pair[1]]
               /\ SameOpAndOperands(ir_function, other, pair[1])
               /\ IsDefinitelyEqualTo(ir_function, other, pair[1])

(***************************************************************************)
(* The P5 front end: the AST of xls/p5/ast.h.  A node is a record whose    *)
(* field kind is its AstNodeKind and whose other fields are the members of *)
(* its class; a child node is the value of the field holding it, so the    *)
(* parent of a node is the node that holds it.  A name is a sequence of    *)
(* strings, the pieces a lowering pass concatenates.  A variable           *)
(* definition (FakeVarDef) is identified by its name, as in                *)
(* Module::name2def.                                                       *)
(***************************************************************************)
AddFakeVarDef(name, size, is_global) ==
    [kind |-> "FakeVarDef", name |-> name, size |-> size,
     is_global |-> is_global]

AddVarRefExpr(def) == [kind |-> "VarRefExpr", def |-> def]

AddNameRefExpr(name, annotation) ==
    [kind |-> "NameRefExpr", name |-> name, annotation |-> annotation]

AddFieldAccessExpr(source, field_name, annotation) ==
    [kind |-> "FieldAccessExpr", source |-> source,
     field_name |-> field_name, annotation |-> annotation]

AddArrIndexExpr(expr, idx) ==
    [kind |-> "ArrIndexExpr", expr |-> expr, idx |-> idx]

AddBitSliceExpr(target, max_bit, min_bit) ==
    [kind |-> "BitSliceExpr", target |-> target, max_bit |-> max_bit,
     min_bit |-> min_bit]

AddIntLiteralExpr(value, size) ==
    [kind |-> "IntLiteralExpr", value |-> value, size |-> size]

AddBuiltinCallExpr(callee, args) ==
    [kind |-> "BuiltinCallExpr", callee |-> callee, args |-> args]

AddBinaryOpExpr(op, lhs, rhs) ==
    [kind |-> "BinaryOpExpr", op |-> op, lhs |-> lhs, rhs |-> rhs]

AddUnaryOpExpr(op, operand) ==
    [kind |-> "UnaryOpExpr", op |-> op, operand |-> operand]

AddStmtBlock(stmts) == [kind |-> "StmtBlock", stmts |-> stmts]

AddIfStmt(condition, then_block) ==
    [kind |-> "IfStmt", condition |-> condition, then_block |-> then_block]

AddIfElseStmt(condition, then_block, else_block) ==
    [kind |-> "IfElseStmt", condition |-> condition,
     then_block |-> then_block, else_block |-> else_block]

AddAssignStmt(lhs, rhs) == [kind |-> "AssignStmt", lhs |-> lhs, rhs |-> rhs]

AddExprEvalStmt(expr) == [kind |-> "ExprEvalStmt", expr |-> expr]

AddReturnStmt == [kind |-> "ReturnStmt"]

AddNopStmt == [kind |-> "NopStmt"]

\* The node standing where an XLS_CHECK or XLS_LOG(FATAL) ended the process.
CheckFailure == [kind |-> "CheckFailure"]

IsLvalueKind(node) ==
    node.kind \in {"BitSliceExpr", "ArrIndexExpr", "NameRefExpr",
                   "FieldAccessExpr", "VarRefExpr"}

\* The children of a node, in the order VisitAll visits them.
Children(node) ==
    CASE node.kind = "StmtBlock" -> node.stmts
      [] node.kind = "IfStmt" -> <<node.condition, node.then_block>>
      [] node.kind = "IfElseStmt" ->
             <<node.condition, node.then_block, node.else_block>>
      [] node.kind = "AssignStmt" -> <<node.lhs, node.rhs>>
      [] node.kind = "ExprEvalStmt" -> <<node.expr>>
      [] node.kind = "BuiltinCallExpr" -> node.args
      [] node.kind = "BinaryOpExpr" -> <<node.lhs, node.rhs>>
      [] node.kind = "UnaryOpExpr" -> <<node.operand>>
      [] node.kind = "BitSliceExpr" -> <<node.target>>
      [] node.kind = "FieldAccessExpr" -> <<node.source>>
      [] node.kind = "ArrIndexExpr" -> <<node.expr>>
      [] OTHER -> << >>

\* The children a visitor goes into from a node it does not rewrite:
\* VisitAll goes into all of them, and the overrides of ir_converter.cc
\* into fewer.
ChildrenVisited(visitor, node) ==
    CASE visitor \in {"NestedIfStmtElimination", "NestedIfStmtEliminationVerify"}
             /\ node.kind = "IfStmt" -> <<node.then_block>>
      [] visitor = "UselessBlockEliminationVerify"
             /\ node.kind = "StmtBlock" -> << >>
      [] visitor = "NestedSliceElimationVerify"
             /\ node.kind = "BitSliceExpr" -> << >>
      [] OTHER -> Children(node)

\* The nodes a visitor is called on when started at node.
RECURSIVE Visited(_, _)
Visited(visitor, node) ==
    LET children == ChildrenVisited(visitor, node)
    IN  {node} \cup UNION {Visited(visitor, children[i]) :
                               i \in 1 .. Len(children)}

(***************************************************************************)
(* The JSON syntax tree the parser reads, xls/p5/json_ast_parser.cc.  A    *)
(* statement is a record with its TYNAME and operands; a BLOCK has the     *)
(* VALUES of its LIST, an IF without OP2 has the empty block as OP2.       *)
(* Expressions stand in the form ParseExpr builds from them.               *)
(***************************************************************************)
JsonBlock(values) == [TYNAME |-> "BLOCK", VALUES |-> values]

JsonIf(op0, op1, op2) ==
    [TYNAME |-> "IF", OP0 |-> op0, OP1 |-> op1, OP2 |-> op2]

JsonAssign(op0, op1) == [TYNAME |-> "ASSIGN", OP0 |-> op0, OP1 |-> op1]

JsonCall(call) == [TYNAME |-> "FUNCTION_CALL", CALL |-> call]

JsonReturn == [TYNAME |-> "RETURN"]

JsonNop == [TYNAME |-> "NOP"]

IsEmptyBlock(json) == json.TYNAME = "BLOCK" /\ Len(json.VALUES) = 0

IsSingleElementBlock(json) == json.TYNAME = "BLOCK" /\ Len(json.VALUES) = 1

GetSingleElement(json) == json.VALUES[Len(json.VALUES)]

RECURSIVE ParseStmt(_)
RECURSIVE ParseStmts(_)
\* The loop of ParseStmtBlock over the VALUES: empty blocks are skipped.
ParseStmts(values) ==
    IF values = << >> THEN << >>
    ELSE IF IsEmptyBlock(Head(values)) THEN ParseStmts(Tail(values))
    ELSE <<ParseStmt(Head(values))>> \o ParseStmts(Tail(values))

ParseStmtBlock(json) == AddStmtBlock(ParseStmts(json.VALUES))

ParseStmt(json) ==
    CASE json.TYNAME = "IF" ->
             IF ~IsEmptyBlock(json.OP2)
             THEN AddIfElseStmt(json.OP0, ParseStmt(json.OP1),
                                ParseStmt(json.OP2))
             ELSE AddIfStmt(json.OP0, ParseStmt(json.OP1))
      [] json.TYNAME = "ASSIGN" -> AddAssignStmt(json.OP0, json.OP1)
      [] json.TYNAME = "RETURN" -> AddReturnStmt
      [] json.TYNAME = "NOP" -> AddNopStmt
      [] json.TYNAME = "BLOCK" ->
             IF IsSingleElementBlock(json)
             THEN ParseStmt(GetSingleElement(json))
             ELSE ParseStmtBlock(json)
      [] json.TYNAME = "FUNCTION_CALL" -> AddExprEvalStmt(json.CALL)

\* JsonSyntaxTreeParser::parse: the body of the module.
ParseModuleFromJson(json) == ParseStmtBlock(json)

(***************************************************************************)
(* The lowering passes of xls/p5/ir_converter.cc.  A pass is a visitor     *)
(* that replaces nodes in place; VisitAll(visitor, node) is the node that  *)
(* stands in the place of node when the visitor has returned from it.  An  *)
(* override that replaces the node holding the visited node (the merge of  *)
(* nested ifs, the unrolling of a block) is written at the holder.         *)
(* ReplaceChild (ast.cc) succeeds for every replacement made here: the     *)
(* replaced node is held by its parent, and an lvalue is replaced by an    *)
(* lvalue.                                                                 *)
(***************************************************************************)
kDelimiter == "."

RECURSIVE VisitAll(_, _)

GetRefName(expr) ==
    IF expr.kind = "NameRefExpr" THEN expr.name ELSE expr.def.name

\* The loop of GetInnerStructVarAnnotation down to the name of the struct.
RECURSIVE InnerStructSource(_)
InnerStructSource(source) ==
    IF source.kind = "NameRefExpr" THEN source
    ELSE IF source.kind = "FieldAccessExpr"
    THEN InnerStructSource(source.source)
    ELSE CheckFailure

GetInnerStructVarAnnotation(expr) ==
    LET name_ref == InnerStructSource(expr.source)
    IN  IF name_ref.kind = "CheckFailure" THEN CheckFailure
        ELSE IF ~name_ref.annotation.has THEN CheckFailure
        ELSE [kind |-> "pair", name |-> name_ref.name,
              size |-> name_ref.annotation.size]

\* FieldAccessElimination::VisitFieldAccessExpr
FieldAccessElimination(expr) ==
    IF ~expr.annotation.has THEN CheckFailure
    ELSE LET anno == expr.annotation
             range_start == anno.offset
             range_end == anno.offset + anno.size - 1
             inner == GetInnerStructVarAnnotation(expr)
         IN  IF inner.kind = "CheckFailure" THEN CheckFailure
             ELSE IF inner.name # anno.struct_var_name THEN CheckFailure
             ELSE AddBitSliceExpr(
                      AddVarRefExpr(AddFakeVarDef(anno.struct_var_name,
                                                  inner.size, anno.is_global)),
                      range_end, range_start)

\* ArrayAccessElimination::VisitArrIndexExpr
ArrayAccessElimination(node) ==
    LET target == node.expr
    IN  IF target.kind # "NameRefExpr" THEN CheckFailure
        ELSE IF ~target.annotation.has THEN CheckFailure
        ELSE AddVarRefExpr(AddFakeVarDef(
                 GetRefName(target) \o <<kDelimiter, ToString(node.idx)>>,
                 target.annotation.size, target.annotation.is_global))

\* ValidAndVaildSetElimination::VisitBuiltinCallExpr: a call of _valid is
\* replaced by a reference to the valid bit; the arguments of any other call
\* are visited.
ValidAndVaildSetElimination_VisitBuiltinCallExpr(node) ==
    IF node.callee = "_valid"
    THEN IF Len(node.args) # 1 THEN CheckFailure
         ELSE LET arg0 == node.args[1]
              IN  IF arg0.kind \notin {"NameRefExpr", "VarRefExpr"}
                  THEN CheckFailure
                  ELSE IF arg0.kind = "NameRefExpr" /\ ~arg0.annotation.has
                  THEN CheckFailure
                  ELSE AddVarRefExpr(AddFakeVarDef(
                           GetRefName(arg0) \o <<kDelimiter, "valid">>, 1,
                           IF arg0.kind = "NameRefExpr"
                           THEN arg0.annotation.is_global
                           ELSE arg0.def.is_global))
    ELSE [node EXCEPT !.args =
              [i \in DOMAIN node.args |->
                   VisitAll("ValidAndVaildSetElimination", node.args[i])]]

\* ValidAndVaildSetElimination::VisitExprEvalStmt: the statement
\* _valid_set(x, v) is replaced by an assignment of v, which is not visited.
ValidAndVaildSetElimination_VisitExprEvalStmt(node) ==
    IF node.expr.kind # "BuiltinCallExpr" THEN CheckFailure
    ELSE LET call_expr == node.expr
         IN  IF call_expr.callee = "_valid_set"
             THEN IF Len(call_expr.args) # 2 THEN CheckFailure
                  ELSE LET arg0 == call_expr.args[1]
                       IN  IF arg0.kind \notin {"NameRefExpr", "VarRefExpr"}
                           THEN CheckFailure
                           ELSE IF arg0.kind = "NameRefExpr"
                           THEN IF ~arg0.annotation.has THEN CheckFailure
                                ELSE AddAssignStmt(
                                         AddVarRefExpr(AddFakeVarDef(
                                             GetRefName(arg0)
                                                 \o <<kDelimiter, "valid">>,
                                             1, arg0.annotation.is_global)),
                                         call_expr.args[2])
                           ELSE AddAssignStmt(arg0, call_expr.args[2])
             ELSE [node EXCEPT !.expr =
                       ValidAndVaildSetElimination_VisitBuiltinCallExpr(
                           call_expr)]

\* NameRefElimation::VisitNameRefExpr
NameRefElimation(node) ==
    LET anno == IF node.annotation.has THEN node.annotation
                ELSE [has |-> TRUE, size |-> 32, is_global |-> TRUE]
    IN  AddVarRefExpr(AddFakeVarDef(node.name, anno.size, anno.is_global))

\* UselessBlockElimination::VisitStmtBlock, over the statements of the block
\* that holds them: a block among them is replaced by its statements, the
\* other statements are visited.
RECURSIVE UnrollStmts(_)
UnrollStmts(stmts) ==
    IF stmts = << >> THEN << >>
    ELSE IF Head(stmts).kind = "StmtBlock"
    THEN Head(stmts).stmts \o UnrollStmts(Tail(stmts))
    ELSE <<VisitAll("UselessBlockElimination", Head(stmts))>>
             \o UnrollStmts(Tail(stmts))

UselessBlockElimination(stmt) == AddStmtBlock(UnrollStmts(stmt.stmts))

\* The mutant of NestedIfStmtElimination that keeps the outer condition only.
NestedIfStmtElimination_DropsInner(stmt) ==
    IF stmt.then_block.kind = "IfStmt"
    THEN AddIfStmt(stmt.condition, stmt.then_block.then_block)
    ELSE [stmt EXCEPT !.then_block =
              VisitAll("NestedIfStmtElimination", stmt.then_block)]

\* NestedIfStmtElimination::VisitIfStmt, at the outer if: an if statement
\* that is the then_block of the IfStmt stmt is merged with it, any other
\* then_block is visited.
NestedIfStmtElimination(stmt) ==
    IF stmt.then_block.kind = "IfStmt"
    THEN AddIfStmt(AddBinaryOpExpr("kLogicalAnd", stmt.condition,
                                   stmt.then_block.condition),
                   stmt.then_block.then_block)
    ELSE [stmt EXCEPT !.then_block =
              VisitAll("NestedIfStmtElimination", stmt.then_block)]

\* The mutant of NestedSliceElimation that keeps the bits of the outer slice.
NestedSliceElimation_KeepsOuterBits(node) ==
    IF node.target.kind = "BitSliceExpr"
    THEN AddBitSliceExpr(node.target.target, node.max_bit, node.min_bit)
    ELSE [node EXCEPT !.target =
              VisitAll("NestedSliceElimation", node.target)]

\* NestedSliceElimation::VisitBitSliceExpr
NestedSliceElimation(node) ==
    LET target == node.target
        outer_max_bit == node.max_bit
        outer_min_bit == node.min_bit
    IN  IF target.kind = "BitSliceExpr"
        THEN LET inner_max_bit == target.max_bit
                 inner_min_bit == target.min_bit
                 inner_size == inner_max_bit - inner_min_bit + 1
                 outer_size == outer_max_bit - outer_min_bit + 1
             IN  IF ~(outer_size <= inner_size /\ outer_max_bit < inner_size)
                 THEN CheckFailure
                 ELSE AddBitSliceExpr(target.target,
                                      inner_min_bit + outer_max_bit,
                                      inner_min_bit + outer_min_bit)
        ELSE [node EXCEPT !.target =
                  VisitAll("NestedSliceElimation", target)]

VisitAll(visitor, node) ==
    CASE visitor = "FieldAccessElimination" /\ node.kind = "FieldAccessExpr" ->
             FieldAccessElimination(node)
      [] visitor = "ArrayAccessElimination" /\ node.kind = "ArrIndexExpr" ->
             ArrayAccessElimination(node)
      [] visitor = "ValidAndVaildSetElimination"
             /\ node.kind = "ExprEvalStmt" ->
             ValidAndVaildSetElimination_VisitExprEvalStmt(node)
      [] visitor = "ValidAndVaildSetElimination"
             /\ node.kind = "BuiltinCallExpr" ->
             ValidAndVaildSetElimination_VisitBuiltinCallExpr(node)
      [] visitor = "NameRefElimation" /\ node.kind = "NameRefExpr" ->
             NameRefElimation(node)
      [] visitor = "UselessBlockElimination" /\ node.kind = "StmtBlock" ->
             UselessBlockElimination(node)
      [] visitor = "NestedIfStmtElimination" /\ node.kind = "IfStmt" ->
             NestedIfStmtElimination(node)
      [] visitor = "NestedSliceElimation" /\ node.kind = "BitSliceExpr" ->
             NestedSliceElimation(node)
      [] node.kind = "StmtBlock" ->
             [node EXCEPT !.stmts =
                  [i \in DOMAIN node.stmts |-> VisitAll(visitor, node.stmts[i])]]
      [] node.kind = "IfStmt" ->
             [node EXCEPT !.condition = VisitAll(visitor, node.condition),
                          !.then_block = VisitAll(visitor, node.then_block)]
      [] node.kind = "IfElseStmt" ->
             [node EXCEPT !.condition = VisitAll(visitor, node.condition),
                          !.then_block = VisitAll(visitor, node.then_block),
                          !.else_block = VisitAll(visitor, node.else_block)]
      [] node.kind = "AssignStmt" ->
             [node EXCEPT !.lhs = VisitAll(visitor, node.lhs),
                          !.rhs = VisitAll(visitor, node.rhs)]
      [] node.kind = "ExprEvalStmt" ->
             [node EXCEPT !.expr = VisitAll(visitor, node.expr)]
      [] node.kind = "BuiltinCallExpr" ->
             [node EXCEPT !.args =
                  [i \in DOMAIN node.args |-> VisitAll(visitor, node.args[i])]]
      [] node.kind = "BinaryOpExpr" ->
             [node EXCEPT !.lhs = VisitAll(visitor, node.lhs),
                          !.rhs = VisitAll(visitor, node.rhs)]
      [] node.kind = "UnaryOpExpr" ->
             [node EXCEPT !.operand = VisitAll(visitor, node.operand)]
      [] node.kind = "BitSliceExpr" ->
             [node EXCEPT !.target = VisitAll(visitor, node.target)]
      [] node.kind = "FieldAccessExpr" ->
             [node EXCEPT !.source = VisitAll(visitor, node.source)]
      [] node.kind = "ArrIndexExpr" ->
             [node EXCEPT !.expr = VisitAll(visitor, node.expr)]
      [] OTHER -> node

\* The process has ended in an XLS_CHECK.
Crashed(body) ==
    \E node \in Visited("VisitAll", body) : node.kind = "CheckFailure"

\* VisitModule of the three fixed-point passes: the loop
\* "while (changed_) { changed_ = false; VisitStmtBlock(module->body); }",
\* where changed_ is set by every replacement.  rounds counts the visits of
\* the body; a loop still changing after MaxRounds visits is given up.
RECURSIVE VisitModule(_, _, _)
VisitModule(visitor, body, rounds) ==
    LET next == VisitAll(visitor, body)
    IN  IF next = body \/ Crashed(next)
        THEN [body |-> next, rounds |-> rounds + 1, terminated |-> TRUE]
        ELSE IF rounds + 1 >= MaxRounds
        THEN [body |-> next, rounds |-> rounds + 1, terminated |-> FALSE]
        ELSE VisitModule(visitor, next, rounds + 1)

\* The verifiers run when need_verify is set: the status of the first that
\* fails.  Every FakeVarDef the passes make is given a size, so the last test
\* (all_has_size) passes.
VerifyLowering(body) ==
    CASE \E node \in Visited("FieldAccessEliminationVerify", body) :
             node.kind = "FieldAccessExpr" -> "FailedPrecondition"
      [] \E node \in Visited("ArrayAccessEliminationVerify", body) :
             node.kind = "ArrIndexExpr" -> "FailedPrecondition"
      [] \E node \in Visited("ValidAndVaildSetEliminationVerify", body) :
             /\ node.kind = "BuiltinCallExpr"
             /\ node.callee \in {"_valid", "_valid_set"} -> "FailedPrecondition"
      [] \E node \in Visited("NameRefElimationVerify", body) :
             node.kind = "NameRefExpr" -> "FailedPrecondition"
      [] \E node \in Visited("NestedIfStmtEliminationVerify", body) :
             /\ node.kind = "IfStmt"
             /\ node.then_block.kind = "IfStmt" -> "CheckFailure"
      [] \E node \in Visited("NestedSliceElimationVerify", body) :
             /\ node.kind = "BitSliceExpr"
             /\ node.target.kind = "BitSliceExpr" -> "FailedPrecondition"
      [] OTHER -> "OK"

\* LoweringTransform(info, module, delimiter, need_verify, mapping): the
\* body of the module afterwards, the status returned ("CheckFailure" when
\* the process ended instead, "Running" when a fixed-point loop was given
\* up), and the visits the if pass and the slice pass made of the body.
LoweringTransform(module_body, need_verify) ==
    LET lowering1 == VisitAll("FieldAccessElimination", module_body)
        lowering2 == VisitAll("ArrayAccessElimination", lowering1)
        lowering3 == VisitAll("ValidAndVaildSetElimination", lowering2)
        lowering4 == VisitAll("NameRefElimation", lowering3)
        useless_block_eliminator ==
            VisitModule("UselessBlockElimination", lowering4, 0)
        nested_if_combiner ==
            VisitModule("NestedIfStmtElimination",
                        useless_block_eliminator.body, 0)
        nested_slice_eliminator ==
            VisitModule("NestedSliceElimation", nested_if_combiner.body, 0)
        Result(body, status) ==
            [body |-> body, status |-> status,
             if_rounds |-> nested_if_combiner.rounds,
             slice_rounds |-> nested_slice_eliminator.rounds]
        Died(body) == [body |-> body, status |-> "CheckFailure",
                       if_rounds |-> 0, slice_rounds |-> 0]
    IN  CASE Crashed(lowering1) -> Died(lowering1)
          [] Crashed(lowering2) -> Died(lowering2)
          [] Crashed(lowering3) -> Died(lowering3)
          [] ~useless_block_eliminator.terminated ->
                 Result(useless_block_eliminator.body, "Running")
          [] ~nested_if_combiner.terminated ->
                 Result(nested_if_combiner.body, "Running")
          [] ~nested_slice_eliminator.terminated ->
                 Result(nested_slice_eliminator.body, "Running")
          [] Crashed(nested_slice_eliminator.body) ->
                 Died(nested_slice_eliminator.body)
          [] need_verify ->
                 Result(nested_slice_eliminator.body,
                        VerifyLowering(nested_slice_eliminator.body))
          [] OTHER -> Result(nested_slice_eliminator.body, "OK")

(***************************************************************************)
(* The actions given to the front end: JSON syntax trees of actions over   *)
(* the variables x, y (4 bits), a (60 bits), the conditions p, q, r        *)
(* (1 bit, local), the array arr, the struct h with the fields f and g.f,  *)
(* and the name z that carries no annotation.                              *)
(***************************************************************************)
NameAnnotation(name) ==
    CASE name = "a" -> [has |-> TRUE, size |-> 60, is_global |-> TRUE]
      [] name \in {"x", "y", "arr"} ->
             [has |-> TRUE, size |-> 4, is_global |-> TRUE]
      [] name = "h" -> [has |-> TRUE, size |-> 8, is_global |-> TRUE]
      [] name \in {"p", "q", "r"} ->
             [has |-> TRUE, size |-> 1, is_global |-> FALSE]
      [] OTHER -> [has |-> FALSE]

NameRef(name) == AddNameRefExpr(<<name>>, NameAnnotation(name))

FieldAnnotation(offset, size) ==
    [has |-> TRUE, struct_var_name |-> <<"h">>, offset |-> offset,
     size |-> size, is_global |-> TRUE]

\* h.f and h.g.f
FieldAccesses ==
    {AddFieldAccessExpr(NameRef("h"), "f", FieldAnnotation(2, 4)),
     AddFieldAccessExpr(
         AddFieldAccessExpr(NameRef("h"), "g", FieldAnnotation(4, 4)),
         "f", FieldAnnotation(5, 2))}

ArrIndexes == {AddArrIndexExpr(NameRef("arr"), idx) : idx \in {0, 1}}

SliceBits == {b \in (0 .. MaxBit) \X (0 .. MaxBit) : b[1] >= b[2]}

SlicesOf(targets) ==
    {AddBitSliceExpr(target, b[1], b[2]) : target \in targets, b \in SliceBits}

\* x[h:l], x[h:l][h:l], x[h:l][h:l][h:l] and the slices of a field
SliceChains ==
    LET depth1 == SlicesOf({NameRef("x")})
        depth2 == SlicesOf(depth1)
    IN  depth1 \cup depth2 \cup SlicesOf(depth2) \cup SlicesOf(FieldAccesses)

\* a[59:10][39:20][9:0]
SliceExample ==
    AddBitSliceExpr(
        AddBitSliceExpr(AddBitSliceExpr(NameRef("a"), 59, 10), 39, 20), 9, 0)

One == AddIntLiteralExpr(1, 1)

AssignOne(name) == JsonAssign(NameRef(name), One)

JsonEmptyBlock == JsonBlock(<< >>)

\* x = e; and e = 1; for the slices, the field accesses and the array indices
AccessPrograms ==
    LET exprs == SliceChains \cup {SliceExample} \cup FieldAccesses
                     \cup ArrIndexes \cup {NameRef("z")}
    IN  {JsonBlock(<<JsonAssign(NameRef("x"), e)>>) : e \in exprs}
            \cup {JsonBlock(<<JsonAssign(e, One), JsonNop>>) :
                      e \in SlicesOf({NameRef("x")}) \cup FieldAccesses
                                \cup ArrIndexes}
            \cup {JsonBlock(<<JsonAssign(NameRef("x"),
                      AddBinaryOpExpr("kAdd", e, NameRef("y")))>>) :
                      e \in SlicesOf(SlicesOf({NameRef("x")}))}

\* The statements _valid_set(t, v); and y = _valid(t);
ValidTargets ==
    {NameRef("x"), NameRef("z")} \cup ArrIndexes \cup FieldAccesses

Valid(t) == AddBuiltinCallExpr("_valid", <<t>>)

ValidSet(t, v) == JsonCall(AddBuiltinCallExpr("_valid_set", <<t, v>>))

ValidPrograms ==
    LET values == {One, NameRef("p")} \cup {Valid(t) : t \in ValidTargets}
        sets == {ValidSet(t, v) : t \in ValidTargets, v \in values}
        reads == {JsonAssign(NameRef("y"), Valid(t)) : t \in ValidTargets}
                     \cup {JsonIf(Valid(NameRef("x")), AssignOne("y"),
                                  JsonEmptyBlock),
                           JsonCall(AddBuiltinCallExpr("_get_anchor",
                                        <<Valid(NameRef("x"))>>))}
    IN  {JsonBlock(<<s>>) : s \in sets \cup reads}
            \cup {JsonBlock(<<s, r>>) : s \in sets, r \in reads}

\* Nests of if statements of depth up to three, with the conditions r, q, p
\* from the innermost to the outermost.
Upto2(stmts) ==
    {<< >>} \cup {<<s>> : s \in stmts} \cup {<<s, AssignOne("x")>> : s \in stmts}

IfsOver(condition, stmts) ==
    {JsonIf(NameRef(condition), JsonBlock(values), else) :
         values \in Upto2(stmts),
         else \in {JsonEmptyBlock, AssignOne("y")}}

IfLevel0 ==
    {AssignOne("x"), JsonEmptyBlock, JsonBlock(<<AssignOne("x"), JsonNop>>)}

IfLevel1 == IfLevel0 \cup IfsOver("r", IfLevel0)

IfLevel2 == IfLevel1 \cup IfsOver("q", IfLevel1)

IfLevel3 ==
    {JsonIf(NameRef("p"), JsonBlock(<<s>>), JsonEmptyBlock) : s \in IfLevel2}

IfPrograms ==
    {JsonBlock(<<s>>) : s \in IfLevel2 \cup IfLevel3}
        \cup {JsonBlock(<<JsonBlock(<<s, JsonNop>>), JsonBlock(<<s, s>>)>>) :
                  s \in IfLevel1}

(***************************************************************************)
(* The IR converter of xls/p5/ir_converter.cc, P5ActionIrConverter, on a   *)
(* lowered module.  The converter builds a dataflow graph over the         *)
(* parameters; here every BValue is the value its node takes for given     *)
(* values of the parameters, and a context (ContextType) maps the name of  *)
(* each variable to the value of its node.  The hit predicate that         *)
(* ExitPredictionAnalysis attaches to a statement is carried down the      *)
(* traversal as hit: none at the top level, else the value of the          *)
(* conjunction of the conditions on the way, each evaluated (and cached in *)
(* expr_value_) in the context in which its if statement was entered.      *)
(***************************************************************************)
\* LiveVarCollection: the definitions referred to in the body.
LiveVarCollection(func_body) ==
    {node.def : node \in {n \in Visited("VisitAll", func_body) :
                              n.kind = "VarRefExpr"}}

\* AstAnalysisInformation::global_vars
GlobalVars(func_body) ==
    {def \in LiveVarCollection(func_body) : def.is_global}

ChangeSize(value, new_size) == value % Pow2(new_size)

RECURSIVE VisitExpr(_, _)
VisitExpr(node, ctx) ==
    CASE node.kind = "VarRefExpr" -> ctx[node.def.name]
      [] node.kind = "IntLiteralExpr" -> node.value
      [] node.kind = "BinaryOpExpr" /\ node.op = "kLogicalAnd" ->
             IF VisitExpr(node.lhs, ctx) # 0 /\ VisitExpr(node.rhs, ctx) # 0
             THEN 1 ELSE 0

NoHit == [has |-> FALSE, value |-> 0]

\* The predicate ExitPredictionAnalysis gives the then-branch of an if
\* entered under hit with the condition value selector: the condition, or
\* the kLogicalAnd of the predicate so far and the condition.
HitAnd(hit, selector) ==
    [has |-> TRUE,
     value |-> IF hit.has
               THEN (IF hit.value # 0 /\ selector # 0 THEN 1 ELSE 0)
               ELSE selector]

\* builder_.Not of a one-bit value.
Not1(value) == 1 - value

\* builder_.Select(selector, on_true, on_false), per variable.
SelectCtx(selector, on_true, on_false) ==
    [name \in DOMAIN on_false |->
         IF selector = 1 THEN on_true[name] ELSE on_false[name]]

\* P5ActionIrConverter::VisitStmt and ExitPredictionAnalysis together: the
\* context after the statement, the exits met in it in program order (each
\* with the value of its hit predicate and the context recorded for the
\* return statement), and whether a return without a hit predicate was met
\* (XLS_LOG(FATAL) in ExitPredictionAnalysis::VisitReturnStmt).  The result
\* of a visit is bound once, as the element of a singleton, before it is used.
RECURSIVE VisitStmt(_, _, _)
RECURSIVE VisitStmtBlock(_, _, _)
VisitStmtBlock(stmts, ctx, hit) ==
    IF stmts = << >> THEN [ctx |-> ctx, exits |-> << >>, fatal |-> FALSE]
    ELSE CHOOSE result \in UNION {
             {[ctx |-> rest.ctx, exits |-> first.exits \o rest.exits,
               fatal |-> first.fatal \/ rest.fatal] :
                  rest \in {VisitStmtBlock(Tail(stmts), first.ctx, hit)}} :
                 first \in {VisitStmt(Head(stmts), ctx, hit)}} : TRUE

VisitStmt(stmt, ctx, hit) ==
    CASE stmt.kind = "StmtBlock" -> VisitStmtBlock(stmt.stmts, ctx, hit)
      [] stmt.kind = "IfStmt" ->
             LET selector == VisitExpr(stmt.condition, ctx)
             IN  CHOOSE result \in
                     {[ctx |-> SelectCtx(selector, then_clause.ctx, ctx),
                       exits |-> then_clause.exits,
                       fatal |-> then_clause.fatal] :
                          then_clause \in
                              {VisitStmt(stmt.then_block, ctx,
                                         HitAnd(hit, selector))}} : TRUE
      [] stmt.kind = "IfElseStmt" ->
             LET selector == VisitExpr(stmt.condition, ctx)
             IN  CHOOSE result \in
                     {[ctx |-> SelectCtx(selector, then_clause.ctx,
                                         else_clause.ctx),
                       exits |-> then_clause.exits \o else_clause.exits,
                       fatal |-> then_clause.fatal \/ else_clause.fatal] :
                          then_clause \in
                              {VisitStmt(stmt.then_block, ctx,
                                         HitAnd(hit, selector))},
                          else_clause \in
                              {VisitStmt(stmt.else_block, ctx,
                                         HitAnd(hit, Not1(selector)))}} : TRUE
      [] stmt.kind = "AssignStmt" ->
             [ctx |-> [ctx EXCEPT ![stmt.lhs.def.name] =
                           ChangeSize(VisitExpr(stmt.rhs, ctx),
                                      stmt.lhs.def.size)],
              exits |-> << >>, fatal |-> FALSE]
      [] stmt.kind = "ReturnStmt" ->
             [ctx |-> ctx,
              exits |-> <<[predict |-> hit.value, ctx |-> ctx]>>,
              fatal |-> ~hit.has]
      [] OTHER -> [ctx |-> ctx, exits |-> << >>, fatal |-> FALSE]

\* builder_.Concat of one-bit values: the first operand is the most
\* significant bit.
RECURSIVE Concat(_)
Concat(bits) ==
    IF bits = << >> THEN 0
    ELSE Head(bits) * Pow2(Len(bits) - 1) + Concat(Tail(bits))

\* Bit i of a value, bit 0 being the least significant.
BitOf(value, i) == (value \div Pow2(i)) % 2

\* builder_.OneHot(input, LsbOrMsb::kMsb) of an input of the given width:
\* width + 1 bits, of which the one at the most significant set bit of the
\* input is set, or bit width when the input is zero.
OneHot(input, width) ==
    IF input = 0 THEN Pow2(width)
    ELSE Pow2(MaxOfSet({i \in 0 .. width - 1 : BitOf(input, i) = 1}))

RECURSIVE BitwiseOr(_, _)
BitwiseOr(a, b) ==
    IF a = 0 THEN b
    ELSE IF b = 0 THEN a
    ELSE (IF a % 2 = 1 \/ b % 2 = 1 THEN 1 ELSE 0)
             + 2 * BitwiseOr(a \div 2, b \div 2)

\* builder_.OneHotSelect(selector, cases): the OR of the cases whose bit of
\* the selector is set; case 0 belongs to the least significant bit.
RECURSIVE OneHotSelect(_, _)
OneHotSelect(selector, cases) ==
    IF cases = << >> THEN 0
    ELSE BitwiseOr(IF selector % 2 = 1 THEN Head(cases) ELSE 0,
                   OneHotSelect(selector \div 2, Tail(cases)))

\* The exit merge of P5ActionIrConverter::Build, from the result of the
\* visit of the body: the exits with their predicates in program order, the
\* context at the end of the body, and the tuple of the final values of the
\* global variables.
ExitMerge(run, global_vars) ==
    LET exit_no == Len(run.exits)
        exit_predict_bits == [i \in 1 .. exit_no |-> run.exits[i].predict]
        final_merge_value(name) ==
            [i \in 1 .. exit_no |-> run.exits[i].ctx[name]]
                \o <<run.ctx[name]>>
        predict == Concat(exit_predict_bits)
        control_encoding == OneHot(predict, exit_no)
    IN  IF run.fatal
        THEN [status |-> "CheckFailure", exits |-> run.exits,
              ctx_without_return |-> run.ctx, output_ctx |-> << >>]
        ELSE [status |-> "OK", exits |-> run.exits,
              ctx_without_return |-> run.ctx,
              output_ctx |->
                  [name \in {def.name : def \in global_vars} |->
                       OneHotSelect(control_encoding,
                                    final_merge_value(name))]]

\* P5ActionIrConverter::Build for the parameter values input_ctx.
P5ActionIrConverter_Build(action_body, input_ctx) ==
    CHOOSE result \in
        {ExitMerge(run, global_vars) :
             run \in {VisitStmtBlock(action_body.stmts, input_ctx, NoHit)},
             global_vars \in {GlobalVars(action_body)}} : TRUE

\* The part of the language the model of the converter covers: blocks, ifs
\* over one-bit conditions, assignments of literals and variables to
\* variables, returns and nops.
IsCondition(expr) ==
    \/ expr.kind = "VarRefExpr" /\ expr.def.size = 1
    \/ /\ expr.kind = "BinaryOpExpr"
       /\ expr.op = "kLogicalAnd"
       /\ \A e \in {expr.lhs, expr.rhs} :
              \/ e.kind = "VarRefExpr" /\ e.def.size = 1
              \/ /\ e.kind = "BinaryOpExpr"
                 /\ e.op = "kLogicalAnd"
                 /\ \A v \in {e.lhs, e.rhs} :
                        v.kind = "VarRefExpr" /\ v.def.size = 1

Convertible(body) ==
    \A node \in Visited("VisitAll", body) :
        CASE node.kind \in {"IfStmt", "IfElseStmt"} ->
                 IsCondition(node.condition)
          [] node.kind = "AssignStmt" ->
                 /\ node.lhs.kind = "VarRefExpr"
                 /\ node.rhs.kind \in {"VarRefExpr", "IntLiteralExpr"}
          [] node.kind \in {"StmtBlock", "ReturnStmt", "NopStmt",
                            "VarRefExpr", "IntLiteralExpr",
                            "BinaryOpExpr"} -> TRUE
          [] OTHER -> FALSE

\* The values of the parameters: any bits for the one-bit variables, zero
\* for the others.
InputContexts(func_body) ==
    LET defs == LiveVarCollection(func_body)
    IN  {ctx \in [{def.name : def \in defs} -> {0, 1}] :
             \A def \in defs : def.size # 1 => ctx[def.name] = 0}

\* Actions with return statements.
Assign(name, value) ==
    JsonAssign(NameRef(name), AddIntLiteralExpr(value, 4))

ReturnBlocks(value) ==
    {JsonBlock(<<Assign("x", value), JsonReturn>>),
     JsonBlock(<<JsonReturn>>),
     JsonBlock(<<Assign("x", value)>>),
     JsonBlock(<<Assign("y", value), JsonReturn>>)}

Guarded(condition, value) ==
    {JsonIf(NameRef(condition), then, else) :
         then \in ReturnBlocks(value),
         else \in {JsonEmptyBlock,
                   JsonBlock(<<Assign("y", value + 4), JsonReturn>>)}}

\* { y = x; return; }: the return stands at the top level of the body.
TopLevelReturnExample ==
    JsonBlock(<<JsonAssign(NameRef("y"), NameRef("x")), JsonReturn>>)

ReturnPrograms ==
    {JsonBlock(<<s1, s2, tail>>) :
         s1 \in Guarded("p", 1),
         s2 \in Guarded("q", 2) \cup {JsonNop},
         tail \in {Assign("x", 3), Assign("y", 3), JsonNop}}
      \cup {JsonBlock(<<JsonIf(NameRef("p"), JsonBlock(<<s, Assign("x", 3),
                                                        JsonReturn>>),
                               JsonEmptyBlock),
                        Assign("y", 3)>>) : s \in Guarded("q", 2)}
      \cup {JsonBlock(<<Assign("x", 1), JsonReturn>>), TopLevelReturnExample}

JsonPrograms ==
    AccessPrograms \cup ValidPrograms \cup IfPrograms \cup ReturnPrograms

(***************************************************************************)
(* Initial state and actions of the front end.                             *)
(***************************************************************************)
P5Init ==
    /\ SeqIdle
    /\ SchedIdle
    /\ PassIdle
    /\ RematIdle
    /\ JsonIdle
    /\ ArenaIdle
    /\ syntax_tree \in JsonPrograms
    /\ ast_module = NoModule
    /\ lowering = NoCall
    /\ conversion = NoCall

\* ParseModuleFromJson(json, mapping)
Parse ==
    /\ ~ast_module.parsed
    /\ ast_module' = [parsed |-> TRUE, body |-> ParseModuleFromJson(syntax_tree)]
    /\ UNCHANGED <<syntax_tree, lowering, conversion, seq_vars, sched_vars,
                   pass_vars,
                   remat_vars, json_vars,
                   arena_vars>>

\* LoweringTransform(&info, module, ".", need_verify, mapping) on the parsed
\* module; the module is rewritten in place.
Lower ==
    /\ ast_module.parsed
    /\ ~lowering.called
    /\ \E need_verify \in BOOLEAN :
           LET result == LoweringTransform(ast_module.body, need_verify)
           IN  /\ lowering' = [called |-> TRUE, need_verify |-> need_verify,
                               parsed |-> ast_module.body,
                               status |-> result.status,
                               if_rounds |-> result.if_rounds,
                               slice_rounds |-> result.slice_rounds]
               /\ ast_module' = [ast_module EXCEPT !.body = result.body]
    /\ UNCHANGED <<syntax_tree, conversion, seq_vars, sched_vars, pass_vars,
                   remat_vars, json_vars,
                   arena_vars>>

\* ConvertP5AstModuleToPackage after its lowering (always verified) has
\* returned OK: P5ActionIrConverter::Build on the body of the module, for
\* some values of the parameters.
Convert ==
    /\ lowering.called
    /\ lowering.need_verify
    /\ lowering.status = "OK"
    /\ Convertible(ast_module.body)
    /\ ~conversion.called
    /\ \E input_ctx \in InputContexts(ast_module.body) :
           \E result \in
               {P5ActionIrConverter_Build(ast_module.body, input_ctx)} :
               conversion' = [called |-> TRUE, input_ctx |-> input_ctx,
                              status |-> result.status,
                              exits |-> result.exits,
                              ctx_without_return |-> result.ctx_without_return,
                              output_ctx |-> result.output_ctx]
    /\ UNCHANGED <<syntax_tree, ast_module, lowering, seq_vars, sched_vars,
                   pass_vars,
                   remat_vars, json_vars,
                   arena_vars>>

P5Next == Parse \/ Lower \/ Convert

P5Spec == P5Init /\ [][P5Next]_vars

(***************************************************************************)
(* Properties of the lowering.                                             *)
(***************************************************************************)
LoweredOk == lowering.called /\ lowering.status = "OK"

\* Every node reachable from the body of the module.
BodyNodes == Visited("VisitAll", ast_module.body)

IsNestedSlice(node) ==
    node.kind = "BitSliceExpr" /\ node.target.kind = "BitSliceExpr"

IsValidCall(node) ==
    node.kind = "BuiltinCallExpr" /\ node.callee \in {"_valid", "_valid_set"}

RECURSIVE MergeNestedIfs(_)
MergeNestedIfs(node) ==
    CASE node.kind = "IfStmt" /\ node.then_block.kind = "IfStmt" ->
             MergeNestedIfs(
                 AddIfStmt(AddBinaryOpExpr("kLogicalAnd", node.condition,
                                           node.then_block.condition),
                           node.then_block.then_block))
      [] node.kind = "IfStmt" ->
             [node EXCEPT !.then_block = MergeNestedIfs(node.then_block)]
      [] node.kind = "IfElseStmt" ->
             [node EXCEPT !.then_block = MergeNestedIfs(node.then_block),
                          !.else_block = MergeNestedIfs(node.else_block)]
      [] node.kind = "StmtBlock" ->
             [node EXCEPT !.stmts =
                  [i \in DOMAIN node.stmts |-> MergeNestedIfs(node.stmts[i])]]
      [] OTHER -> node

\* if(p){ if(q){ x = 1; } }
NestedIfExample ==
    JsonBlock(<<JsonIf(NameRef("p"),
                       JsonBlock(<<JsonIf(NameRef("q"),
                                          JsonBlock(<<AssignOne("x")>>),
                                          JsonEmptyBlock)>>),
                       JsonEmptyBlock)>>)

VarRefOf(name) == NameRefElimation(NameRef(name))

IfStmtsOf(nodes) == {node \in nodes : node.kind = "IfStmt"}

RECURSIVE FlatSlice(_)
FlatSlice(node) ==
    IF node.kind = "BitSliceExpr" /\ node.target.kind = "BitSliceExpr"
    THEN LET inner == FlatSlice(node.target)
         IN  AddBitSliceExpr(inner.target, inner.min_bit + node.max_bit,
                             inner.min_bit + node.min_bit)
    ELSE node

\* The expression e when only its names and field accesses are lowered.
WithVarRefs(e) ==
    VisitAll("NameRefElimation", VisitAll("FieldAccessElimination", e))

IsSliceAssign(json) ==
    /\ Len(json.VALUES) = 1
    /\ json.VALUES[1].TYNAME = "ASSIGN"
    /\ json.VALUES[1].OP1.kind = "BitSliceExpr"

SliceProgram(e) == JsonBlock(<<JsonAssign(NameRef("x"), e)>>)

\* C18: lowering rewrites a chain of nested constant bit-slices of any depth
\* to the single slice of the innermost target that the rule
\* x[h1:l1][h2:l2] -> x[l1+h2 : l1+l2] gives, and its fixed-point iteration
\* terminates; of a[59:10][39:20][9:0] it leaves the single slice a[39:30].
C18_NestedSlicesFlattened ==
    /\ lowering.called => lowering.status # "Running"
    /\ LoweredOk =>
           /\ \A node \in BodyNodes : ~IsNestedSlice(node)
           /\ IsSliceAssign(syntax_tree) =>
                  ast_module.body.stmts[1].rhs =
                      FlatSlice(WithVarRefs(syntax_tree.VALUES[1].OP1))
           /\ syntax_tree = SliceProgram(SliceExample) =>
                  ast_module.body.stmts[1].rhs =
                      AddBitSliceExpr(VarRefOf("a"), 39, 30)

\* a[59:10][39:20][9:0] has been lowered, in two rewriting visits of the
\* body and a last one that found nothing to rewrite.
C18_Witness ==
    /\ LoweredOk
    /\ syntax_tree = SliceProgram(SliceExample)
    /\ ast_module.body.stmts[1].rhs = AddBitSliceExpr(VarRefOf("a"), 39, 30)
    /\ lowering.slice_rounds = 3

\* The action _valid_set(x, v); y = _valid(x);
IsValidSetThenValid(json) ==
    /\ Len(json.VALUES) = 2
    /\ json.VALUES[1].TYNAME = "FUNCTION_CALL"
    /\ json.VALUES[1].CALL.callee = "_valid_set"
    /\ json.VALUES[2].TYNAME = "ASSIGN"
    /\ json.VALUES[2].OP1.kind = "BuiltinCallExpr"
    /\ json.VALUES[2].OP1.callee = "_valid"
    /\ json.VALUES[2].OP1.args[1] = json.VALUES[1].CALL.args[1]

\* C19: lowering rewrites _valid_set(x, v) to an assignment to the 1-bit
\* validity variable of x and _valid(x) to a reference to that same
\* variable, whether x is a NameRef or a VarRef when the pass runs.
C19_ValidBitShared ==
    (LoweredOk /\ IsValidSetThenValid(syntax_tree)) =>
        LET assign == ast_module.body.stmts[1]
            read == ast_module.body.stmts[2].rhs
        IN  /\ assign.kind = "AssignStmt"
            /\ assign.lhs.kind = "VarRefExpr"
            /\ assign.lhs.def.size = 1
            /\ read = assign.lhs

\* The index of the first exit, in program order, whose hit predicate is
\* true for the parameter values, or 0 when there is none.
FirstHit(exits) ==
    MinOfSet({i \in 1 .. Len(exits) : exits[i].predict = 1}, 0)

Converted == conversion.called /\ conversion.status = "OK"

\* C20: the final value of every global variable that Build returns is its
\* value in the context recorded at the first return statement, in program
\* order, whose hit predicate is true, and its value in the fall-through
\* context at the end of the body when no hit predicate is true.
C20_ExitMerge ==
    Converted =>
        \A name \in DOMAIN conversion.output_ctx :
            conversion.output_ctx[name] =
                IF FirstHit(conversion.exits) = 0
                THEN conversion.ctx_without_return[name]
                ELSE conversion.exits[FirstHit(conversion.exits)].ctx[name]

\* C21: converting the module whose body is { y = x; return; }, the return
\* at the top level of the body and inside no if, completes without aborting
\* and yields the function whose tuple holds the final global values, y
\* being the parameter x.
C21_TopLevelReturnConverts ==
    (conversion.called /\ syntax_tree = TopLevelReturnExample) =>
        /\ conversion.status = "OK"
        /\ conversion.output_ctx[<<"y">>] = conversion.input_ctx[<<"x">>]

(***************************************************************************)
(* Properties of the width of the index counter and of its construction.   *)
(***************************************************************************)
\* limit = ((trip_count * stride - 1) / stride) * stride, integer division.
CounterLimit == ((trip_count * stride - 1) \div stride) * stride

\* ceil(log2(n)) for n >= 1: the least k with 2^k >= n.
CeilLog2(n) == CHOOSE k \in 0 .. 16 : Pow2(k) >= n /\ (k = 0 \/ Pow2(k - 1) < n)

\* floor(log2(n)) + 1 for n >= 1: the least k with n < 2^k.
BitsToHold(n) == CHOOSE k \in 0 .. 16 : n < Pow2(k) /\ (k = 0 \/ n >= Pow2(k - 1))

\* C24 as stated: for every stride >= 1 and trip_count >= 1 the index counter
\* register has ceil(log2(limit)) bits.
C24_Original ==
    (Built /\ stride >= 1 /\ trip_count >= 1) =>
        IndexCounter.num_counter_bits = CeilLog2(CounterLimit)

\* C24 amended: for every stride >= 1 and trip_count >= 2 the index counter
\* register has floor(log2(limit)) + 1 bits, the least width that holds
\* limit, and limit is the value compared for holds_max_inclusive_value.
C24_CounterBits ==
    (Built /\ stride >= 1 /\ trip_count >= 2) =>
        /\ IndexCounter.max_inclusive_value = CounterLimit
        /\ IndexCounter.num_counter_bits = BitsToHold(CounterLimit)
        /\ index_counter < Pow2(BitsToHold(CounterLimit))

\* A module with stride 2 and trip count 3 is built: limit is 4, a power of
\* two, and the counter has 3 bits.
C24_Witness ==
    /\ Built
    /\ stride = 2 /\ trip_count = 3
    /\ CounterLimit = 4
    /\ IndexCounter.num_counter_bits = 3

\* C28: for every stride >= 1 and trip_count >= 1, trip_count = 1 included,
\* building the strided index counter completes and returns the counter; the
\* only failures are Unimplemented errors for a non-positive stride or limit.
C28_CounterBuilds ==
    build # "unbuilt" =>
        /\ (stride >= 1 /\ trip_count >= 1) => build = "ok"
        /\ build # "ok" =>
               /\ build = "unimplemented"
               /\ stride <= 0 \/ stride * trip_count <= 0

\* UnrollCountedFor: the loop body invoked trip_count times, the trip-th
\* time on the induction value iv = trip * stride and the value carried out
\* of the invocation before it.
RECURSIVE UnrollCountedFor(_, _, _, _)
UnrollCountedFor(trip, iv, loop_carry_in, invariant_arg) ==
    IF ~(trip < trip_count) THEN loop_carry_in
    ELSE UnrollCountedFor(trip + 1, iv + stride,
                          LoopBody(iv, loop_carry_in, invariant_arg),
                          invariant_arg)

C27_OutputStable ==
    [][ (Built /\ Built' /\ valid_out = 1) => data_out' = data_out ]_vars

\* The output is held while the inputs offer another value and a new request.
C27_Witness ==
    /\ Built /\ valid_out = 1 /\ ready_out = 0 /\ run_cycles > 0
    /\ valid_in = 1 /\ data_in # data_out
    /\ pipeline_output # data_out

\* C26: after every accepted valid_in handshake the FSM reaches Done after
\* exactly trip_count * (latency + 1) cycles in Running, and once ready_out
\* is raised while valid_out is asserted the FSM returns to Ready.
C26_RunTerminates ==
    /\ (Built /\ fsm_state = "Ready" /\ valid_in = 1) ~>
           (fsm_state = "Done" /\ run_cycles = trip_count * (latency + 1))
    /\ (Built /\ valid_out = 1 /\ ready_out = 1) ~> (fsm_state = "Ready")

C26_Witness ==
    /\ Built /\ stride = 2 /\ trip_count = 3 /\ latency = 1
    /\ fsm_state = "Done" /\ run_cycles = 6
    /\ valid_out = 1 /\ ready_out = 1

(***************************************************************************)
(* The rematerialization pass of xls/passes/rematerialization_pass.cc:     *)
(* the opportunities and the ordered sets built from them.  A Node* is the *)
(* address of the node, a number.                                          *)
(***************************************************************************)
NodePointers == 1 .. MaxNodePointer
Qualities == {1, 2}

RematOpportunity ==
    [to_rematerialize : NodePointers, rematerialization : NodePointers,
     quality : Qualities]

RematEdgeOpportunity ==
    [edge_src : NodePointers, edge_dst : NodePointers,
     rematerialization : NodePointers, quality : {1}]

\* operator< of std::tuple: the lexicographic order of the components.
RECURSIVE TupleLess(_, _)
TupleLess(lhs_tuple, rhs_tuple) ==
    IF lhs_tuple = << >> THEN FALSE
    ELSE IF Head(lhs_tuple) < Head(rhs_tuple) THEN TRUE
    ELSE IF Head(rhs_tuple) < Head(lhs_tuple) THEN FALSE
    ELSE TupleLess(Tail(lhs_tuple), Tail(rhs_tuple))

\* operator< of RematOpportunity: both tuples are built, and the left one
\* is compared with itself.
RematOpportunity_Less(lhs, rhs) ==
    LET lhs_tuple == <<lhs.to_rematerialize, lhs.rematerialization>>
        rhs_tuple == <<rhs.to_rematerialize, rhs.rematerialization>>
    IN  TupleLess(lhs_tuple, lhs_tuple)

\* operator< of RematEdgeOpportunity, likewise.
RematEdgeOpportunity_Less(lhs, rhs) ==
    LET lhs_tuple == <<lhs.edge_src, lhs.edge_dst, lhs.rematerialization>>
        rhs_tuple == <<rhs.edge_src, rhs.edge_dst, rhs.rematerialization>>
    IN  TupleLess(lhs_tuple, lhs_tuple)

\* The identifying tuple of an opportunity of either kind.
IdentifyingTuple(o) ==
    IF "to_rematerialize" \in DOMAIN o
    THEN <<o.to_rematerialize, o.rematerialization>>
    ELSE <<o.edge_src, o.edge_dst, o.rematerialization>>

Less(lhs, rhs) ==
    IF "to_rematerialize" \in DOMAIN lhs
    THEN RematOpportunity_Less(lhs, rhs)
    ELSE RematEdgeOpportunity_Less(lhs, rhs)

\* absl::btree_set::insert: the set as the sequence of its elements in
\* order.  An element equivalent to one in the set (neither is less than the
\* other) is not inserted; else it goes before the first element it is less
\* than.
BtreeInsert(set, value) ==
    IF \E i \in 1 .. Len(set) : ~Less(set[i], value) /\ ~Less(value, set[i])
    THEN set
    ELSE LET before == {i \in 1 .. Len(set) : Less(value, set[i])}
             at == IF before = {} THEN Len(set) + 1
                   ELSE CHOOSE i \in before : \A j \in before : i <= j
         IN  SubSeq(set, 1, at - 1) \o <<value>> \o SubSeq(set, at, Len(set))

\* absl::btree_set(first, last): the elements of the range, inserted in turn.
RECURSIVE BtreeSet(_)
BtreeSet(range) ==
    IF range = << >> THEN << >>
    ELSE BtreeInsert(BtreeSet(SubSeq(range, 1, Len(range) - 1)),
                     range[Len(range)])

VectorsOf(elements) ==
    UNION {[1 .. n -> elements] : n \in 0 .. MaxOpportunities}

RematInit ==
    /\ SeqIdle
    /\ SchedIdle
    /\ PassIdle
    /\ P5Idle
    /\ JsonIdle
    /\ ArenaIdle
    /\ opportunities \in VectorsOf(RematOpportunity)
    /\ edge_opportunities \in VectorsOf(RematEdgeOpportunity)
    /\ universe = NoCall /\ edge_universe = NoCall

\* Rematerialization: the universe of the submodular function.
Rematerialization ==
    /\ ~universe.called
    /\ universe' = [called |-> TRUE, set |-> BtreeSet(opportunities)]
    /\ UNCHANGED <<opportunities, edge_opportunities, edge_universe,
                   seq_vars, sched_vars, pass_vars, p5_vars, json_vars,
                   arena_vars>>

\* RematerializationEdge: the universe of the submodular function.
RematerializationEdge ==
    /\ ~edge_universe.called
    /\ edge_universe' = [called |-> TRUE, set |-> BtreeSet(edge_opportunities)]
    /\ UNCHANGED <<opportunities, edge_opportunities, universe,
                   seq_vars, sched_vars, pass_vars, p5_vars, json_vars,
                   arena_vars>>

RematNext == Rematerialization \/ RematerializationEdge

RematSpec == RematInit /\ [][RematNext]_vars

Elements(sequence) == {sequence[i] : i \in 1 .. Len(sequence)}

\* Of two opportunities with different identifying tuples exactly one is
\* less than the other.
Trichotomy(a, b) ==
    IdentifyingTuple(a) # IdentifyingTuple(b) => (Less(a, b) # Less(b, a))

\* The ordered set holds an opportunity with the tuple of every one found.
HoldsAll(set, found) ==
    set.called =>
        \A a \in Elements(found) : \E e \in Elements(set.set) :
            IdentifyingTuple(e) = IdentifyingTuple(a)

\* C30: operator< on RematOpportunity and on RematEdgeOpportunity is a
\* strict total order on the identifying tuple: of two opportunities with
\* different tuples exactly one is less than the other, so the ordered set
\* built from the opportunities holds every distinct one of them.
C30_StrictTotalOrder ==
    /\ \A a, b \in Elements(opportunities) : Trichotomy(a, b)
    /\ \A a, b \in Elements(edge_opportunities) : Trichotomy(a, b)
    /\ HoldsAll(universe, opportunities)
    /\ HoldsAll(edge_universe, edge_opportunities)

(***************************************************************************)
(* The JSON syntax tree parser of xls/p5/json_ast_parser.cc and the ToJson *)
(* of xls/p5/ast.cc, on the documents themselves.  A JSON object is a      *)
(* record of its members, an array a sequence, a string a string; the      *)
(* digits of an INT are a sequence of digits, as they stand in the string. *)
(* A call returns a status and, when the status is OK, a node.  The status *)
(* Abort stands for the end of the process: a failed XLS_CHECK, value() on *)
(* a StatusOr that holds an error, or an exception of nlohmann::json::at   *)
(* that nothing catches.                                                   *)
(***************************************************************************)
\* A JSON value that is not an object.
JsonNull == [json_type |-> "null"]

\* json.is_object()
IsObject(json) == "json_type" \notin DOMAIN json

\* json.contains(key): false on a value that is not an object.
Contains(json, key) == IsObject(json) /\ key \in DOMAIN json

Ok(node) == [status |-> "OK", node |-> node]
InvalidArgumentError == [status |-> "InvalidArgument", node |-> << >>]
Abort == [status |-> "Abort", node |-> << >>]

\* GetReversedInt64Value: the number whose decimal digits are those of the
\* string, read from the last to the first.
RECURSIVE GetReversedInt64Value(_)
GetReversedInt64Value(str) ==
    IF str = << >> THEN 0
    ELSE Head(str) + 10 * GetReversedInt64Value(Tail(str))

\* std::to_string(value), reversed.
RECURSIVE ReversedToString(_)
ReversedToString(value) ==
    IF value < 10 THEN <<value>>
    ELSE <<value % 10>> \o ReversedToString(value \div 10)

\* IsEmptyBlock(json): "true", "false", or "throw" where at() finds no member.
JsonIsEmptyBlock(json) ==
    IF ~IsObject(json) THEN "false"
    ELSE IF ~Contains(json, "TYNAME") THEN "throw"
    ELSE IF json.TYNAME # "BLOCK" THEN "false"
    ELSE IF ~Contains(json, "OP1") THEN "true"
    ELSE IF ~Contains(json.OP1, "TYNAME") THEN "throw"
    ELSE IF json.OP1.TYNAME # "LIST" THEN "false"
    ELSE IF ~Contains(json.OP1, "VALUES") THEN "throw"
    ELSE IF Len(json.OP1.VALUES) = 0 THEN "true" ELSE "false"

\* IsSingleElementBlock(json), likewise.
JsonIsSingleElementBlock(json) ==
    IF ~IsObject(json) THEN "false"
    ELSE IF ~Contains(json, "TYNAME") THEN "throw"
    ELSE IF json.TYNAME # "BLOCK" \/ ~Contains(json, "OP1") THEN "false"
    ELSE IF ~Contains(json.OP1, "TYNAME") THEN "throw"
    ELSE IF json.OP1.TYNAME # "LIST" THEN "true"
    ELSE IF ~Contains(json.OP1, "VALUES") THEN "throw"
    ELSE IF Len(json.OP1.VALUES) = 1 THEN "true" ELSE "false"

\* JsonSyntaxTreeParser::ParseNamedConstantExpr
ParseNamedConstantExpr(json) ==
    IF ~(Contains(json, "TYNAME") /\ json.TYNAME = "IDENT"
           /\ Contains(json, "STRING") /\ Contains(json, "VALUE"))
    THEN InvalidArgumentError
    ELSE Ok([kind |-> "IntLiteralExpr", value |-> json.VALUE,
             size |-> IF json.STRING \in {"true", "false"} THEN 1 ELSE 64,
             name |-> json.STRING])

\* JsonSyntaxTreeParser::ParseNameRefExpr
ParseNameRefExpr(json) ==
    IF ~(Contains(json, "TYNAME") /\ json.TYNAME = "IDENT"
           /\ Contains(json, "STRING") /\ ~Contains(json, "VALUE"))
    THEN InvalidArgumentError
    ELSE LET has_size == Contains(json, "SIZE")
             has_global == Contains(json, "GLOBAL")
             has_both_fields == has_size /\ has_global
             has_neither_fields == ~(has_size \/ has_global)
         IN  IF ~(has_both_fields \/ has_neither_fields) THEN Abort
             ELSE Ok([kind |-> "NameRefExpr", name |-> json.STRING,
                      annotation |->
                          IF has_both_fields
                          THEN [has |-> TRUE, size |-> json.SIZE,
                                is_global |-> json.GLOBAL = 1]
                          ELSE [has |-> FALSE]])

\* JsonSyntaxTreeParser::ParseIntLiteralExpr
ParseIntLiteralExpr(json) ==
    IF ~(Contains(json, "TYNAME") /\ json.TYNAME = "INT_LIT")
    THEN InvalidArgumentError
    ELSE Ok([kind |-> "IntLiteralExpr",
             value |-> IF Contains(json, "INT")
                       THEN GetReversedInt64Value(json.INT) ELSE 0,
             size |-> 64, name |-> "int_lit"])

\* The test `!(json.at("OP1").contains("INT") || json.at("OP2").contains("INT"))`
\* of ParseExpr and ParseLvalue on a SLICE: "true", "false" or "throw".
IsFullSlice(json) ==
    IF ~Contains(json, "OP1") THEN "throw"
    ELSE IF Contains(json.OP1, "INT") THEN "false"
    ELSE IF ~Contains(json, "OP2") THEN "throw"
    ELSE IF Contains(json.OP2, "INT") THEN "false" ELSE "true"

RECURSIVE ParseExpr(_)
\* JsonSyntaxTreeParser::ParseSliceExpr
ParseSliceExpr(json) ==
    IF ~(Contains(json, "TYNAME") /\ json.TYNAME = "SLICE"
           /\ Contains(json, "OP0") /\ Contains(json, "OP1")
           /\ Contains(json, "OP2")
           /\ (Contains(json.OP1, "INT") \/ Contains(json.OP2, "INT")))
    THEN InvalidArgumentError
    ELSE LET expr == ParseExpr(json.OP0)
             max_bit == IF Contains(json.OP1, "INT")
                        THEN GetReversedInt64Value(json.OP1.INT) ELSE 0
             min_bit == IF Contains(json.OP2, "INT")
                        THEN GetReversedInt64Value(json.OP2.INT) ELSE 0
         IN  IF expr.status # "OK" THEN expr
             ELSE IF ~(max_bit >= min_bit /\ max_bit >= 0) THEN Abort
             ELSE Ok([kind |-> "BitSliceExpr", target |-> expr.node,
                      max_bit |-> max_bit, min_bit |-> min_bit])

\* JsonSyntaxTreeParser::ParseExpr, for the identifiers, the slices and the
\* integer literals.
ParseExpr(json) ==
    IF ~Contains(json, "TYNAME") THEN InvalidArgumentError
    ELSE CASE json.TYNAME = "IDENT" ->
                  IF Contains(json, "VALUE") THEN ParseNamedConstantExpr(json)
                  ELSE ParseNameRefExpr(json)
           [] json.TYNAME = "SLICE" ->
                  CASE IsFullSlice(json) = "throw" -> Abort
                    [] IsFullSlice(json) = "true" ->
                           IF Contains(json, "OP0") THEN ParseExpr(json.OP0)
                           ELSE Abort
                    [] OTHER -> ParseSliceExpr(json)
           [] json.TYNAME = "INT_LIT" -> ParseIntLiteralExpr(json)
           [] OTHER -> InvalidArgumentError

\* JsonSyntaxTreeParser::ParseLvalue, for the identifiers and the slices.
RECURSIVE ParseLvalue(_)
ParseLvalue(json) ==
    IF ~Contains(json, "TYNAME") THEN InvalidArgumentError
    ELSE CASE json.TYNAME = "IDENT" -> ParseNameRefExpr(json)
           [] json.TYNAME = "SLICE" ->
                  CASE IsFullSlice(json) = "throw" -> Abort
                    [] IsFullSlice(json) = "true" -> ParseLvalue(json.OP1)
                    [] OTHER -> ParseSliceExpr(json)
           [] OTHER -> InvalidArgumentError

RECURSIVE JsonParseStmt(_)
RECURSIVE JsonParseStmtBlock(_)
RECURSIVE ParseElements(_)
\* The loop of ParseStmtBlock over the VALUES: an empty block is skipped,
\* the first statement that fails to parse ends the loop with its status.
ParseElements(values) ==
    IF values = << >> THEN Ok(<< >>)
    ELSE CASE JsonIsEmptyBlock(Head(values)) = "throw" -> Abort
           [] JsonIsEmptyBlock(Head(values)) = "true" ->
                  ParseElements(Tail(values))
           [] OTHER ->
                  CHOOSE result \in
                      {IF stmt.status # "OK" THEN stmt
                       ELSE CHOOSE r \in
                                {IF rest.status # "OK" THEN rest
                                 ELSE Ok(<<stmt.node>> \o rest.node) :
                                     rest \in {ParseElements(Tail(values))}} :
                                TRUE :
                           stmt \in {JsonParseStmt(Head(values))}} : TRUE

\* JsonSyntaxTreeParser::ParseStmtBlock
JsonParseStmtBlock(json) ==
    IF ~(Contains(json, "TYNAME") /\ Contains(json, "OP0")
           /\ json.TYNAME = "BLOCK")
    THEN InvalidArgumentError
    ELSE IF Contains(json, "OP1") /\ ~Contains(json.OP1, "TYNAME") THEN Abort
    ELSE IF Contains(json, "OP1") /\ json.OP1.TYNAME = "BLOCK"
    THEN JsonParseStmtBlock(json.OP1)
    ELSE IF ~Contains(json.OP0, "STRING") THEN Abort
    ELSE IF ~Contains(json, "OP1")
    THEN Ok([kind |-> "StmtBlock", name |-> json.OP0.STRING, stmts |-> << >>])
    ELSE IF json.OP1.TYNAME # "LIST" THEN Abort
    ELSE IF ~Contains(json.OP1, "VALUES") THEN Abort
    ELSE CHOOSE result \in
             {IF stmts.status # "OK" THEN stmts
              ELSE Ok([kind |-> "StmtBlock", name |-> json.OP0.STRING,
                       stmts |-> stmts.node]) :
                  stmts \in {ParseElements(json.OP1.VALUES)}} : TRUE

\* JsonSyntaxTreeParser::ParseAssignStmt
ParseAssignStmt(json) ==
    IF ~(Contains(json, "TYNAME") /\ json.TYNAME = "ASSIGN"
           /\ Contains(json, "OP0") /\ Contains(json, "OP1"))
    THEN InvalidArgumentError
    ELSE LET lhs == ParseLvalue(json.OP0)
             rhs == ParseExpr(json.OP1)
         IN  IF lhs.status # "OK" THEN lhs
             ELSE IF rhs.status # "OK" THEN rhs
             ELSE Ok([kind |-> "AssignStmt", lhs |-> lhs.node,
                      rhs |-> rhs.node])

\* JsonSyntaxTreeParser::ParseIfElseStmt
ParseIfElseStmt(json) ==
    IF ~(Contains(json, "TYNAME") /\ json.TYNAME = "IF"
           /\ Contains(json, "OP0") /\ Contains(json, "OP1")
           /\ Contains(json, "OP2"))
    THEN InvalidArgumentError
    ELSE IF JsonIsEmptyBlock(json.OP2) = "throw" THEN Abort
    ELSE IF JsonIsEmptyBlock(json.OP2) = "true" THEN InvalidArgumentError
    ELSE CHOOSE result \in
             {IF expr.status # "OK" THEN expr
              ELSE IF then_block.status # "OK" THEN then_block
              ELSE IF else_block.status # "OK" THEN else_block
              ELSE Ok([kind |-> "IfElseStmt", condition |-> expr.node,
                       then_block |-> then_block.node,
                       else_block |-> else_block.node]) :
                  expr \in {ParseExpr(json.OP0)},
                  then_block \in {JsonParseStmt(json.OP1)},
                  else_block \in {JsonParseStmt(json.OP2)}} : TRUE

\* JsonSyntaxTreeParser::ParseIfStmt
ParseIfStmt(json) ==
    IF ~(Contains(json, "TYNAME") /\ json.TYNAME = "IF"
           /\ Contains(json, "OP0") /\ Contains(json, "OP1"))
    THEN InvalidArgumentError
    ELSE IF Contains(json, "OP2") /\ JsonIsEmptyBlock(json.OP2) = "throw"
    THEN Abort
    ELSE IF Contains(json, "OP2") /\ JsonIsEmptyBlock(json.OP2) = "false"
    THEN InvalidArgumentError
    ELSE CHOOSE result \in
             {IF expr.status # "OK" THEN expr
              ELSE IF then_block.status # "OK" THEN then_block
              ELSE Ok([kind |-> "IfStmt", condition |-> expr.node,
                       then_block |-> then_block.node]) :
                  expr \in {ParseExpr(json.OP0)},
                  then_block \in {JsonParseStmt(json.OP1)}} : TRUE

\* JsonSyntaxTreeParser::ParseStmt, for the blocks, the ifs, the
\* assignments, the returns and the nops.
JsonParseStmt(json) ==
    IF ~Contains(json, "TYNAME") THEN InvalidArgumentError
    ELSE CASE json.TYNAME = "IF" ->
                  IF ~Contains(json, "OP2") THEN ParseIfStmt(json)
                  ELSE CASE JsonIsEmptyBlock(json.OP2) = "throw" -> Abort
                         [] JsonIsEmptyBlock(json.OP2) = "false" ->
                                ParseIfElseStmt(json)
                         [] OTHER -> ParseIfStmt(json)
           [] json.TYNAME = "ASSIGN" -> ParseAssignStmt(json)
           [] json.TYNAME = "RETURN" -> Ok([kind |-> "ReturnStmt"])
           [] json.TYNAME = "NOP" -> Ok([kind |-> "NopStmt"])
           [] json.TYNAME = "BLOCK" ->
                  CASE JsonIsSingleElementBlock(json) = "throw" -> Abort
                    [] JsonIsSingleElementBlock(json) = "true" ->
                           IF ~Contains(json.OP1, "VALUES") THEN Abort
                           ELSE JsonParseStmt(
                                    json.OP1.VALUES[Len(json.OP1.VALUES)])
                    [] OTHER -> JsonParseStmtBlock(json)
           [] OTHER -> InvalidArgumentError

\* JsonSyntaxTreeParser::parse: the status the caller gets, with the module
\* when it is OK.  value() on a body that holds an error ends the process.
JsonSyntaxTreeParser_parse(json) ==
    IF ~(Contains(json, "TYNAME") /\ json.TYNAME = "BLOCK"
           /\ Contains(json, "OP0") /\ Contains(json, "OP1"))
    THEN InvalidArgumentError
    ELSE CHOOSE result \in
             {IF body.status # "OK" THEN Abort ELSE body :
                  body \in {JsonParseStmtBlock(json)}} : TRUE

\* to_json::CreateIntLiteral
CreateIntLiteral(value) ==
    [TYNAME |-> "INT_LIT", INT |-> ReversedToString(value)]

\* to_json::CreateIdentifier
CreateIdentifier(str) == [TYNAME |-> "IDENT", STRING |-> str]

\* ToJson of the nodes the parser builds.
RECURSIVE ToJson(_)
ToJson(node) ==
    CASE node.kind = "StmtBlock" ->
             [TYNAME |-> "BLOCK", OP0 |-> CreateIdentifier(node.name),
              OP1 |-> [TYNAME |-> "LIST",
                       VALUES |-> [i \in 1 .. Len(node.stmts) |->
                                       ToJson(node.stmts[i])]]]
      [] node.kind = "IfElseStmt" ->
             [TYNAME |-> "IF", OP0 |-> ToJson(node.condition),
              OP1 |-> ToJson(node.then_block),
              OP2 |-> ToJson(node.else_block)]
      [] node.kind = "IfStmt" ->
             [TYNAME |-> "IF", OP0 |-> ToJson(node.condition),
              OP1 |-> ToJson(node.then_block)]
      [] node.kind = "AssignStmt" ->
             [TYNAME |-> "ASSIGN", OP0 |-> ToJson(node.lhs),
              OP1 |-> ToJson(node.rhs)]
      [] node.kind = "ReturnStmt" -> [TYNAME |-> "RETURN"]
      [] node.kind = "NopStmt" -> [TYNAME |-> "NOP"]
      [] node.kind = "IntLiteralExpr" -> CreateIntLiteral(node.value)
      [] node.kind = "NameRefExpr" ->
             IF node.annotation.has
             THEN [TYNAME |-> "IDENT", STRING |-> node.name,
                   SIZE |-> node.annotation.size,
                   GLOBAL |-> IF node.annotation.is_global THEN 1 ELSE 0]
             ELSE CreateIdentifier(node.name)
      [] node.kind = "BitSliceExpr" ->
             [TYNAME |-> "SLICE", OP0 |-> ToJson(node.target),
              OP1 |-> CreateIntLiteral(node.max_bit),
              OP2 |-> CreateIntLiteral(node.min_bit)]

(***************************************************************************)
(* The documents given to the parser.                                      *)
(***************************************************************************)
Ident(name) == [TYNAME |-> "IDENT", STRING |-> name]

\* A name with the SIZE and GLOBAL annotations.
Variable(name) ==
    [TYNAME |-> "IDENT", STRING |-> name, SIZE |-> 4, GLOBAL |-> 1]

IntLit(digits) == [TYNAME |-> "INT_LIT", INT |-> digits]

Slice(op0, op1, op2) ==
    [TYNAME |-> "SLICE", OP0 |-> op0, OP1 |-> op1, OP2 |-> op2]

List(values) == [TYNAME |-> "LIST", VALUES |-> values]

NamedBlock(name, values) ==
    [TYNAME |-> "BLOCK", OP0 |-> Ident(name), OP1 |-> List(values)]

AssignTo(name, op1) ==
    [TYNAME |-> "ASSIGN", OP0 |-> Variable(name), OP1 |-> op1]

\* Statements whose dump has their own shape.
PlainElements ==
    {AssignTo("x", IntLit(<<2, 1>>)),
     AssignTo("y", Variable("x")),
     AssignTo("y", Slice(Variable("x"), IntLit(<<3>>), IntLit(<<1>>))),
     [TYNAME |-> "RETURN"],
     [TYNAME |-> "NOP"],
     [TYNAME |-> "IF", OP0 |-> Variable("p"),
      OP1 |-> NamedBlock("then", <<AssignTo("x", IntLit(<<1>>)),
                              [TYNAME |-> "RETURN"]>>)],
     [TYNAME |-> "IF", OP0 |-> Variable("p"),
      OP1 |-> NamedBlock("then", << >>),
      OP2 |-> NamedBlock("else", <<AssignTo("x", IntLit(<<1>>)),
                              [TYNAME |-> "NOP"]>>)]}

\* Statements the parser accepts and normalises.
NormalisedElements ==
    {NamedBlock("inner", <<AssignTo("x", IntLit(<<1>>))>>),
     NamedBlock("inner", << >>),
     [TYNAME |-> "BLOCK", OP0 |-> Ident("inner")],
     [TYNAME |-> "IF", OP0 |-> Variable("p"),
      OP1 |-> NamedBlock("then", << >>), OP2 |-> NamedBlock("else", << >>)],
     AssignTo("x", [TYNAME |-> "IDENT", STRING |-> "c", VALUE |-> 5]),
     AssignTo("x", Slice(Variable("y"), Ident("hi"), Ident("lo"))),
     AssignTo("x", IntLit(<<0, 1, 0>>))}

\* Statements that lack a required field or carry a tag outside the set.
MalformedElements ==
    {[TYNAME |-> "ASSIGN", OP0 |-> Variable("x")],
     [TYNAME |-> "WHILE", OP0 |-> Variable("p")],
     [OP0 |-> Variable("x"), OP1 |-> IntLit(<<1>>)],
     AssignTo("x", [TYNAME |-> "IDENT", STRING |-> "y", SIZE |-> 4]),
     AssignTo("x", [TYNAME |-> "SLICE", OP0 |-> Variable("y")]),
     AssignTo("x", [TYNAME |-> "SIZEOF", OP0 |-> Variable("y")]),
     [TYNAME |-> "IF", OP0 |-> Variable("p")]}

JsonElements == PlainElements \cup NormalisedElements \cup MalformedElements

\* Documents malformed at the top level.
MalformedTops ==
    {JsonNull,
     [TYNAME |-> "BLOCK", OP0 |-> Ident("main")],
     [TYNAME |-> "LIST", VALUES |-> << >>],
     [TYNAME |-> "BLOCK", OP1 |-> List(<<[TYNAME |-> "NOP"]>>)]}

JsonDocuments ==
    {NamedBlock("main", values) :
         values \in UNION {[1 .. n -> JsonElements] : n \in 0 .. MaxElements}}
      \cup MalformedTops

JsonInit ==
    /\ SeqIdle
    /\ SchedIdle
    /\ PassIdle
    /\ P5Idle
    /\ RematIdle
    /\ ArenaIdle
    /\ json_doc \in JsonDocuments
    /\ json_parse = NoCall /\ json_dump = NoCall

\* ParseModuleFromJson(json_doc, nullptr)
JsonParse ==
    /\ ~json_parse.called
    /\ \E result \in {JsonSyntaxTreeParser_parse(json_doc)} :
           json_parse' = [called |-> TRUE, status |-> result.status,
                          body |-> result.node]
    /\ UNCHANGED <<json_doc, json_dump, seq_vars, sched_vars, pass_vars,
                   p5_vars, remat_vars,
                   arena_vars>>

\* Module::ToJson on the module the parser returned.
JsonDump ==
    /\ json_parse.called /\ json_parse.status = "OK"
    /\ ~json_dump.called
    /\ json_dump' = [called |-> TRUE, json |-> ToJson(json_parse.body)]
    /\ UNCHANGED <<json_doc, json_parse, seq_vars, sched_vars, pass_vars,
                   p5_vars, remat_vars,
                   arena_vars>>

JsonNext == JsonParse \/ JsonDump

JsonSpec == JsonInit /\ [][JsonNext]_vars

\* The input format: every node carries a TYNAME of the tag set and the
\* fields its tag requires.
RECURSIVE WellFormedExpr(_)
WellFormedExpr(json) ==
    /\ Contains(json, "TYNAME")
    /\ CASE json.TYNAME = "IDENT" ->
                /\ Contains(json, "STRING")
                /\ Contains(json, "SIZE") <=> Contains(json, "GLOBAL")
         [] json.TYNAME = "INT_LIT" -> Contains(json, "INT")
         [] json.TYNAME = "SLICE" ->
                /\ \A op \in {"OP0", "OP1", "OP2"} : Contains(json, op)
                /\ WellFormedExpr(json.OP0)
         [] OTHER -> FALSE

RECURSIVE WellFormedStmt(_)
WellFormedStmt(json) ==
    /\ Contains(json, "TYNAME")
    /\ CASE json.TYNAME = "BLOCK" ->
                /\ Contains(json, "OP0")
                /\ Contains(json.OP0, "STRING")
                /\ Contains(json, "OP1") =>
                       /\ Contains(json.OP1, "TYNAME")
                       /\ json.OP1.TYNAME = "LIST"
                       /\ Contains(json.OP1, "VALUES")
                       /\ \A i \in 1 .. Len(json.OP1.VALUES) :
                              WellFormedStmt(json.OP1.VALUES[i])
         [] json.TYNAME = "IF" ->
                /\ Contains(json, "OP0") /\ Contains(json, "OP1")
                /\ WellFormedExpr(json.OP0)
                /\ WellFormedStmt(json.OP1)
                /\ Contains(json, "OP2") => WellFormedStmt(json.OP2)
         [] json.TYNAME = "ASSIGN" ->
                /\ Contains(json, "OP0") /\ Contains(json, "OP1")
                /\ WellFormedExpr(json.OP0)
                /\ WellFormedExpr(json.OP1)
         [] json.TYNAME \in {"RETURN", "NOP"} -> TRUE
         [] OTHER -> FALSE

\* C22: whenever the document is malformed, a statement or expression
\* nested in the top-level block lacking a required field or carrying an
\* unsupported TYNAME included, ParseModuleFromJson returns InvalidArgument
\* and does not end the process.
C22_MalformedIsInvalidArgument ==
    (json_parse.called /\ ~WellFormedStmt(json_doc)) =>
        json_parse.status = "InvalidArgument"

\* C23: for every document the parser accepts, the dump of the parsed
\* module is the document: the same TYNAME at every position, the same
\* fields present, the same values.
C23_RoundTrip ==
    json_dump.called => json_dump.json = json_doc

(***************************************************************************)
(* The AST with its parent pointers, xls/p5/ast.cc.  The Module owns the   *)
(* nodes in its vector of elements; a node is known by its place in the    *)
(* vector, the module itself by ModuleId, and a node holds the places of   *)
(* its children (the statements of a block; the condition and the then     *)
(* block of an if; the operands of a binary operator) and of its parent.   *)
(* A pass carries the module (elements, body), whether it has changed the  *)
(* tree (changed_), whether an XLS_CHECK has failed, and the modules after *)
(* each of its rewrites.                                                   *)
(***************************************************************************)
ModuleId == 0
NullPtr == -1

IsStmtKind(kind) == kind \in {"StmtBlock", "IfStmt", "NopStmt"}

\* AstNode::SetParent
SetParent(s, node, parent) == [s EXCEPT !.elements[node].parent = parent]

RECURSIVE SetParents(_, _, _)
SetParents(s, nodes, parent) ==
    IF nodes = << >> THEN s
    ELSE SetParents(SetParent(s, Head(nodes), parent), Tail(nodes), parent)

\* Mutant: a new node does not take over the children it is given.
ModuleAdd_KeepsParents(s, kind, children) ==
    [s EXCEPT !.elements =
         Append(@, [kind |-> kind, parent |-> NullPtr,
                    children |-> children])]

\* Module::AddStmtBlock, AddIfStmt, AddBinaryOpExpr, AddNameRefExpr,
\* AddNopStmt: the node is appended to the elements and made the parent of
\* each child.  The new node is the last element.
ModuleAdd(s, kind, children) ==
    SetParents([s EXCEPT !.elements =
                    Append(@, [kind |-> kind, parent |-> NullPtr,
                               children |-> children])],
               children, Len(s.elements) + 1)

Snapshot(s) == [elements |-> s.elements, body |-> s.body]

Fail(s) == [s EXCEPT !.failed = TRUE]

\* ReplaceChild of the module, of a block, of an if and of a binary
\* operator: the first child equal to child gives way to dst, and dst gets
\* the holder as parent.  The pass goes on under XLS_CHECK of the result.
ReplaceChild(s, holder, child, dst) ==
    IF holder = NullPtr THEN Fail(s)
    ELSE IF holder = ModuleId
    THEN IF /\ s.elements[child].kind = s.elements[dst].kind
            /\ s.elements[dst].kind = "StmtBlock"
            /\ s.body = child
         THEN SetParent([s EXCEPT !.body = dst], dst, ModuleId)
         ELSE Fail(s)
    ELSE LET children == s.elements[holder].children
             places == {i \in 1 .. Len(children) : children[i] = child}
         IN  IF IsStmtKind(s.elements[child].kind)
                    # IsStmtKind(s.elements[dst].kind)
             THEN Fail(s)
             ELSE IF places = {} THEN Fail(s)
             ELSE SetParent(
                      [s EXCEPT !.elements[holder].children[
                                    CHOOSE i \in places :
                                        \A j \in places : i <= j] = dst],
                      dst, holder)

\* A rewrite is over: changed_ is set and the module is recorded.
Rewritten(s) ==
    IF s.failed THEN s
    ELSE [s EXCEPT !.changed = TRUE, !.log = Append(@, Snapshot(s))]

\* Mutant: the new node is given the replaced node as parent.
ReplaceParent_ToReplaced(s, parent) ==
    CHOOSE result \in
        {Rewritten(IF replaced.failed THEN replaced
                   ELSE SetParent(replaced, Len(s.elements), parent)) :
             replaced \in {ReplaceChild(s, s.elements[parent].parent, parent,
                                        Len(s.elements))}} : TRUE

\* The end of both rewrites: the node added last takes the place of parent
\* in the parent of parent (XLS_CHECK of ReplaceChild) and is given that
\* parent.
ReplaceParent(s, parent) ==
    CHOOSE result \in
        {Rewritten(IF replaced.failed THEN replaced
                   ELSE SetParent(replaced, Len(s.elements),
                                  s.elements[parent].parent)) :
             replaced \in {ReplaceChild(s, s.elements[parent].parent, parent,
                                        Len(s.elements))}} : TRUE

\* The merge in NestedIfStmtElimination::VisitIfStmt of stmt into parent.
MergeNestedIf(s, stmt, parent) ==
    CHOOSE result \in
        {ReplaceParent(with_if, parent) :
             with_if \in
                 {ModuleAdd(with_and, "IfStmt",
                            <<Len(with_and.elements),
                              s.elements[stmt].children[2]>>) :
                      with_and \in
                          {ModuleAdd(s, "BinaryOpExpr",
                                     <<s.elements[parent].children[1],
                                       s.elements[stmt].children[1]>>)}}} :
        TRUE

\* The statements of parent with those of stmt in the place of stmt.
RECURSIVE Spliced(_, _, _)
Spliced(s, stmts, stmt) ==
    IF stmts = << >> THEN << >>
    ELSE (IF Head(stmts) = stmt THEN s.elements[stmt].children
          ELSE <<Head(stmts)>>) \o Spliced(s, Tail(stmts), stmt)

\* The unrolling in UselessBlockElimination::VisitStmtBlock of stmt into
\* parent.
UnrollUselessBlock(s, stmt, parent) ==
    IF \A i \in 1 .. Len(s.elements[parent].children) :
           s.elements[parent].children[i] # stmt
    THEN Fail(s)
    ELSE CHOOSE result \in
             {ReplaceParent(with_block, parent) :
                  with_block \in
                      {ModuleAdd(s, "StmtBlock",
                                 Spliced(s, s.elements[parent].children,
                                         stmt))}} : TRUE

\* NameRefElimation::VisitNameRefExpr: a new VarRefExpr takes the place of
\* the name in its parent (XLS_CHECK of ReplaceChild).
ReplaceNameRef(s, node) ==
    CHOOSE result \in
        {IF replaced.failed THEN replaced
         ELSE [replaced EXCEPT !.log = Append(@, Snapshot(replaced))] :
             replaced \in
                 {ReplaceChild(added, added.elements[node].parent, node,
                               Len(added.elements)) :
                      added \in {ModuleAdd(s, "VarRefExpr", << >>)}}} : TRUE

\* VisitExpr of the condition of an if.
PassVisitExpr(visitor, s, expr) ==
    IF /\ visitor = "NameRefElimation"
       /\ ~s.failed
       /\ s.elements[expr].kind = "NameRefExpr"
    THEN ReplaceNameRef(s, expr)
    ELSE s

RECURSIVE PassVisitStmt(_, _, _)
RECURSIVE PassVisitStmts(_, _, _)
\* The loop of VisitStmtBlock over the statements the block had when the
\* loop began.
PassVisitStmts(visitor, s, stmts) ==
    IF stmts = << >> \/ s.failed THEN s
    ELSE CHOOSE result \in
             {PassVisitStmts(visitor, after, Tail(stmts)) :
                  after \in {PassVisitStmt(visitor, s, Head(stmts))}} : TRUE

\* VisitStmt of the passes: VisitIfStmt of NestedIfStmtElimination,
\* VisitStmtBlock of UselessBlockElimination, and VisitAll for the rest.
PassVisitStmt(visitor, s, stmt) ==
    LET node == s.elements[stmt]
        parent == node.parent
    IN  CASE s.failed -> s
          [] visitor = "NestedIfStmtElimination" /\ node.kind = "IfStmt" ->
                 IF parent = NullPtr THEN Fail(s)
                 ELSE IF /\ parent # ModuleId
                         /\ s.elements[parent].kind = "IfStmt"
                         /\ s.elements[parent].children[2] = stmt
                 THEN MergeNestedIf(s, stmt, parent)
                 ELSE PassVisitStmt(visitor, s, node.children[2])
          [] visitor = "UselessBlockElimination" /\ node.kind = "StmtBlock" ->
                 IF parent = NullPtr THEN Fail(s)
                 ELSE IF /\ parent # ModuleId
                         /\ s.elements[parent].kind = "StmtBlock"
                 THEN UnrollUselessBlock(s, stmt, parent)
                 ELSE PassVisitStmts(visitor, s, node.children)
          [] node.kind = "StmtBlock" ->
                 PassVisitStmts(visitor, s, node.children)
          [] node.kind = "IfStmt" ->
                 CHOOSE result \in
                     {PassVisitStmt(visitor, after,
                                    after.elements[stmt].children[2]) :
                          after \in {PassVisitExpr(visitor, s,
                                                   node.children[1])}} : TRUE
          [] OTHER -> s

\* VisitModule of the two structural passes: the body is visited until a visit changes
\* nothing.
RECURSIVE PassVisitModule(_, _, _)
PassVisitModule(visitor, s, rounds) ==
    IF rounds = 0 THEN [s EXCEPT !.changed = TRUE]
    ELSE CHOOSE result \in
             {IF after.failed \/ ~after.changed THEN after
              ELSE PassVisitModule(visitor, after, rounds - 1) :
                  after \in {PassVisitStmt(visitor,
                                           [s EXCEPT !.changed = FALSE],
                                           s.body)}} : TRUE

(***************************************************************************)
(* The modules the parser builds.                                          *)
(***************************************************************************)
Nop == [t |-> "nop"]
IfOf(then) == [t |-> "if", then |-> then]
BlockOf(stmts) == [t |-> "block", stmts |-> stmts]

RECURSIVE StmtTrees(_)
StmtTrees(depth) ==
    IF depth = 0 THEN {Nop}
    ELSE CHOOSE result \in
             {smaller \cup {IfOf(then) : then \in smaller}
                  \cup {BlockOf(<<s1, s2>>) : s1, s2 \in smaller} :
                  smaller \in {StmtTrees(depth - 1)}} : TRUE

BodyTrees ==
    CHOOSE result \in
        {{BlockOf(<<s1>>) : s1 \in stmts}
             \cup {BlockOf(<<s1, s2>>) : s1, s2 \in stmts} :
             stmts \in {StmtTrees(MaxDepth)}} : TRUE

NoElements == [elements |-> << >>, body |-> NullPtr, changed |-> FALSE,
               failed |-> FALSE, log |-> << >>]

\* The nodes the parser adds for a statement, the statement last.
RECURSIVE AddTree(_, _)
RECURSIVE AddTrees(_, _, _)
AddTrees(s, trees, added) ==
    IF trees = << >> THEN ModuleAdd(s, "StmtBlock", added)
    ELSE CHOOSE result \in
             {AddTrees(with, Tail(trees), Append(added, Len(with.elements))) :
                  with \in {AddTree(s, Head(trees))}} : TRUE

AddTree(s, tree) ==
    CASE tree.t = "nop" -> ModuleAdd(s, "NopStmt", << >>)
      [] tree.t = "if" ->
             CHOOSE result \in
                 {ModuleAdd(with_then, "IfStmt",
                            <<Len(s.elements) + 1, Len(with_then.elements)>>) :
                      with_then \in
                          {AddTree(ModuleAdd(s, "NameRefExpr", << >>),
                                   tree.then)}} : TRUE
      [] tree.t = "block" -> AddTrees(s, tree.stmts, << >>)

\* JsonSyntaxTreeParser::parse: the body is built and given the module as
\* parent.
ParsedModule(tree) ==
    CHOOSE result \in
        {SetParent([with EXCEPT !.body = Len(with.elements)],
                   Len(with.elements), ModuleId) :
             with \in {AddTree(NoElements, tree)}} : TRUE

ArenaInit ==
    /\ SeqIdle
    /\ SchedIdle
    /\ PassIdle
    /\ P5Idle
    /\ RematIdle
    /\ JsonIdle
    /\ \E tree \in BodyTrees : module_elements = ParsedModule(tree)
    /\ passes_run = 0

\* lowering4.VisitModule(module) of LoweringTransform: one visit of the
\* body.
RunNameRefElimation ==
    /\ passes_run = 0 /\ ~module_elements.failed
    /\ module_elements' =
           PassVisitStmt("NameRefElimation", module_elements,
                         module_elements.body)
    /\ passes_run' = 1
    /\ UNCHANGED <<seq_vars, sched_vars, pass_vars, p5_vars, remat_vars,
                   json_vars>>

\* useless_block_eliminator.VisitModule(module) of LoweringTransform
RunUselessBlockElimination ==
    /\ passes_run = 1 /\ ~module_elements.failed
    /\ module_elements' =
           PassVisitModule("UselessBlockElimination", module_elements,
                           MaxRounds)
    /\ passes_run' = 2
    /\ UNCHANGED <<seq_vars, sched_vars, pass_vars, p5_vars, remat_vars,
                   json_vars>>

\* nested_if_combiner.VisitModule(module) of LoweringTransform
RunNestedIfStmtElimination ==
    /\ passes_run = 2 /\ ~module_elements.failed
    /\ module_elements' =
           PassVisitModule("NestedIfStmtElimination", module_elements,
                           MaxRounds)
    /\ passes_run' = 3
    /\ UNCHANGED <<seq_vars, sched_vars, pass_vars, p5_vars, remat_vars,
                   json_vars>>

ArenaNext ==
    \/ RunNameRefElimation
    \/ RunUselessBlockElimination
    \/ RunNestedIfStmtElimination

ArenaSpec == ArenaInit /\ [][ArenaNext]_vars

\* The nodes reachable from the body through the children.
RECURSIVE ReachableNodes(_, _, _)
ReachableNodes(m, frontier, seen) ==
    IF frontier = {} THEN seen
    ELSE CHOOSE result \in
             {ReachableNodes(m, next \ (seen \cup frontier),
                             seen \cup frontier) :
                  next \in
                      {UNION {{m.elements[n].children[i] :
                                   i \in 1 .. Len(m.elements[n].children)} :
                                  n \in frontier}}} : TRUE

\* Following the parents from a node ends at the module.
RECURSIVE EndsAtModule(_, _, _)
EndsAtModule(m, node, steps) ==
    IF node = ModuleId THEN TRUE
    ELSE IF node = NullPtr \/ steps = 0 THEN FALSE
    ELSE EndsAtModule(m, m.elements[node].parent, steps - 1)

\* Every reachable node is the parent of each of its children, the module
\* is the parent of the body, and the parents lead to the module.
ParentsConsistent(m) ==
    /\ m.elements[m.body].parent = ModuleId
    /\ \A n \in ReachableNodes(m, {m.body}, {}) :
           /\ \A i \in 1 .. Len(m.elements[n].children) :
                  m.elements[m.elements[n].children[i]].parent = n
           /\ EndsAtModule(m, n, Len(m.elements))

====
